---------------------------- MODULE Spec2Model ----------------------------
(***************************************************************************)
(* A model of the duplicate-file finder (crates duped, file_duplicates and *)
(* their command line front ends).                                         *)
(*                                                                         *)
(* Spec      the discovery engine of duped/src/lib.rs (Deduper::find):     *)
(*           the walker, the round-robin dispatch over bounded channels,   *)
(*           the hashing workers with the optional sqlite cache, and the   *)
(*           collector.  Two consecutive discoveries over one cache file.  *)
(* SpecProg  the progressive hasher of duped/src/hasher.rs and file.rs,    *)
(*           driven by the refinement loop of the grouping engine.         *)
(* SpecFair  Spec with weak fairness of the calling thread, of every       *)
(*           worker thread and of the collector thread.                    *)
(* SpecProgFair  SpecProg with its threads scheduled fairly.               *)
(* SpecRemove  the removal workflows of duped-cli/src/main.rs on the       *)
(*           duplicate groups of a discovery, with and without a cache.    *)
(* SpecRemoveFair  SpecRemove with the workflow never held back.          *)
(* SpecCompare  the byte comparator same_content of duped-cli/src/main.rs, *)
(*           one buffered read of each file per step.                      *)
(* SpecDb    the cache HashDb of src/db.rs: its table and the statements   *)
(*           insert, remove and select.                                    *)
(* SpecRetry  retry_on_busy of src/db.rs around a statement.               *)
(* SpecFilter  the size window ContentLimit of duped/src/traits.rs.         *)
(* SpecSet   HasherSet of duped/src/hasher.rs: insert and                  *)
(*           filter_unfinished_duplicates.                                 *)
(* SpecHasher  ProgressiveHasher of duped/src/hasher.rs on a file that may  *)
(*           be truncated after its metadata was read.                     *)
(* SpecRoots  the walk of Deduper::find over its roots, one entry after     *)
(*           the other, and the result it builds.                          *)
(* SpecArgs  parse_args of duped-cli/src/main.rs on the arguments that     *)
(*           are left after its options.                                   *)
(* SpecBudget  the file descriptor budget of find and the capacities of    *)
(*           its channels, for every limit and number of workers.          *)
(***************************************************************************)
EXTENDS Integers, Sequences, FiniteSets, TLC

(***************************************************************************)
(* Bounds of the model.                                                    *)
(***************************************************************************)
\* number of entries the walk yields (one path per entry)
NumFiles == 2
\* the soft RLIMIT_NOFILE of the process
RLimitNoFile == 9
\* the longest file the progressive engine is given, in bytes
MaxLen == 3
\* number of paths in the duplicate groups handed to a removal workflow
NumEntries == 4
\* the capacity of a BufReader, in bytes
BufCap == 2
\* number of calls made on a cache connection
MaxOps == 3
\* number of hashers put into a HasherSet on its own
NumHashers == 3
\* number of roots given to the Deduper
MaxRoots == 2
\* number of arguments on the command line after the options
MaxArgs == 3
\* number of times retry_on_busy issues its statement
MaxTries == 8
\* number of lines stdin holds for one pair of interactive_removal
MaxLines == 2
\* the largest soft RLIMIT_NOFILE the budget is computed for
MaxRLimit == 70
\* number of bits of usize in the budget computation
UsizeBits == 16

(***************************************************************************)
(* The environment of find.                                                *)
(***************************************************************************)
\* num_cpus::get().min(16) on a host with two cores
NumThreads == 2
\* num_cpus::get().min(16): the largest number of workers
MaxWorkers == 16

Paths == 1..NumFiles
Workers == 0..(NumThreads - 1)

\* The byte contents a file may have.
Contents == {<<1>>, <<1, 2>>}

Range(seq) == {seq[n] : n \in 1..Len(seq)}

Min(a, b) == IF a < b THEN a ELSE b

\* blake3 is modelled as collision free: the digest of a byte sequence stands
\* for that sequence and for no other.
Hash(bytes) == <<"blake3", bytes>>

\* FileTime::unix_seconds drops the nanoseconds.
unix_seconds(mtime) == mtime.sec

number_of_fds_available(num_threads) == RLimitNoFile - 4 * num_threads

Fds == number_of_fds_available(NumThreads)

\* capacity of each worker's input channel: sync_channel(fds / num_threads)
ThreadCap == Fds \div NumThreads

\* a channel that never reports Full
HasRoomAlways(cap, queue, receiving) == TRUE

\* A channel made by sync_channel(cap) takes a try_send when it buffers fewer
\* than cap messages; with cap = 0 it is a rendezvous channel, which takes one
\* only while its receiver is blocked in recv().
HasRoom(cap, queue, receiving) ==
    IF cap = 0 THEN receiving /\ queue = <<>> ELSE Len(queue) < cap

NoTask == [path |-> 0]
NoRow == [mtime |-> 0]
NoRes == [path |-> 0]

VARIABLES
    \* ---- the file system and the cache file (outlive a discovery) ----
    fs,           \* path -> [content, mtime]
    db,           \* path -> row [mtime, size, hash] or NoRow   (table "path")
    useDb,        \* DeduperInner.db_path is Some
    run,          \* "first" or "second" discovery
    modified,     \* paths changed on disk between the two discoveries
    prevOk,       \* paths the first discovery answered Ok with the cache on
    \* ---- the thread of find (walker and dispatcher) ----
    pc,           \* "walk", "dispatch", "join", "joincollector", "returned", "panicked"
    pos,          \* index of the walk entry under the cursor
    held,         \* the (path, file, mtime) opened and not yet handed over
    next_worker,
    attempts,     \* try_send calls made in the current `for _ in 0..threads.len()`
    joinIdx,      \* the worker being joined
    stopped,
    senderDropped,\* worker -> its thread_tx was dropped by find
    \* ---- the workers ----
    inq,          \* worker -> its input channel
    wpc,          \* worker -> "start", "recv", "work", "send", "exited", "failed"
    wtask,        \* worker -> the task it received
    wres,         \* worker -> the (path, res) it is sending
    \* ---- the collector ----
    resq,         \* the result channel
    cpc,          \* "run", "done", "panicked"
    hashes,       \* DeduperResult.hashes: hash -> FileEntries
    hooked,       \* the calls of hooks.entry_processed: (hash, entry) -> how often
    is_partial,   \* DeduperResult.is_partial
    \* ---- history of the current discovery ----
    fate,         \* path -> what happened to its walk entry
    \* ---- the progressive engine ----
    files,        \* path -> the bytes of the file
    hashers,      \* path -> its ProgressiveHasher
    stage,        \* path -> "dispatched", "responded", "set", "single", "final", "dropped"
    responses,    \* the result channel: (hasher, result of update)
    awaited,      \* responses the collector still waits for in this round
    inner,        \* HasherSet.inner: digest -> the hashers inserted under it
    groups,       \* the result: hash -> FileEntries
    collector,    \* "idle", "round", "finalize", "done", "panicked"
    round,        \* number of the round
    round_size,   \* hashers dispatched for the round
    received,     \* responses the collector took in the round
    holds,        \* worker -> the file of the hasher it took, or 0
    \* ---- the removal workflows of the command line tool ----
    kind,         \* "none", "interactive", "same_filename", "paranoid"
    cache,        \* Some(db) was configured
    rows,         \* paths with a row in the cache file
    disk,         \* path -> [exists, name, content]
    dups,         \* the duplicate groups handed to the workflow, a sequence
    rpc,          \* "idle", "group", "pair", "done", "failed", "panicked"
    group,        \* index of the group the outer loop is at
    sorted,       \* `entries`, the sorted paths of that group
    idx_i,        \* interactive_removal: `i`
    idx_j,        \* interactive_removal: `j`;  the other two: index of dup_path
    removed,      \* paths std::fs::remove_file removed
    tried,        \* paths remove_file was called with
    answer,       \* paranoid_removal: what the last same_content returned
    choice,       \* interactive_removal: the lines read into `choice`
    prompted,     \* interactive_removal: the prompt of this turn is flushed
    eof,          \* interactive_removal: stdin has reached its end
    \* ---- same_content ----
    bytes1,       \* the bytes of the file at p1
    bytes2,       \* the bytes of the file at p2
    pos1,         \* bytes reader1 has consumed
    pos2,         \* bytes reader2 has consumed
    verdict,      \* "idle", "running", "Ok(true)", "Ok(false)", "Err"
    \* ---- HashDb ----
    conn,         \* the rows of table "path" behind the connection
    calls,        \* the calls made on the connection, with what they returned
    \* ---- retry_on_busy ----
    outcomes,     \* what each call of the closure f returned, in order
    retval,       \* what retry_on_busy returned, NoOutcome while it loops
    \* ---- ContentLimit ----
    lower_limit,  \* ContentLimit.lower_limit
    upper_limit,  \* ContentLimit.upper_limit
    md_size,      \* metadata.size() of the file handle_file was given last
    action,       \* what handle_file returned last
    \* ---- parse_args ----
    argv,         \* `remaining`: the arguments left after the options
    argi,         \* index of the argument the loop is at
    remove,       \* `remove`: Option<RemovalKind>
    roots,        \* `roots`
    parsed,       \* "idle", "running", "Ok" or the error returned
    \* ---- HasherSet on its own ----
    hset,         \* `inner` of a HasherSet
    inserted,     \* the hashers inserted so far, in order
    split,        \* what filter_unfinished_duplicates returned
    \* ---- a ProgressiveHasher on its own ----
    ondisk,       \* the bytes the file holds now
    ph,           \* the ProgressiveHasher of the file
    \* ---- find over its roots, entry by entry ----
    tree,         \* path -> the bytes of the file
    root_list,    \* DeduperInner.roots
    root_at,      \* index of the root being walked
    entry_at,     \* index of the entry in the walk of that root
    found,        \* the DeduperResult
    \* ---- the file descriptor budget ----
    rlimit_nofile, \* getrlimit(NOFILE).0 as usize
    num_workers,  \* num_cpus::get().min(16)
    fds,          \* the budget number_of_fds_available returned
    result_cap,   \* capacity of the result channel
    queue_cap,    \* capacity of each worker queue
    bpc           \* "idle", "start", "budget", "channels", "panicked"

rrVars == <<fs, db, useDb, run, modified, prevOk, pc, pos, held, next_worker,
            attempts, joinIdx, stopped, senderDropped, inq, wpc, wtask, wres,
            resq, cpc, hashes, hooked, is_partial, fate>>

progressiveVars == <<files, hashers, stage, responses, awaited, inner, groups,
                     collector, round, round_size, received, holds>>

removalVars == <<kind, cache, rows, disk, dups, rpc, group, sorted, idx_i, idx_j,
                 removed, tried, answer, choice, prompted, eof>>

\* what interactive_removal keeps of its input
stdinVars == <<choice, prompted, eof>>

compareVars == <<bytes1, bytes2, pos1, pos2, verdict>>

dbVars == <<conn, calls>>

retryVars == <<outcomes, retval>>

filterVars == <<lower_limit, upper_limit, md_size, action>>

argsVars == <<argv, argi, remove, roots, parsed>>

hasherSetVars == <<hset, inserted, split>>

hasherVars == <<ondisk, ph>>

rootsVars == <<tree, root_list, root_at, entry_at, found>>

budgetVars == <<rlimit_nofile, num_workers, fds, result_cap, queue_cap, bpc>>

\* the state of the functions that are modelled on their own
toolVars == <<compareVars, dbVars, retryVars, filterVars, argsVars,
              hasherSetVars, hasherVars, rootsVars, budgetVars>>

\* what a discovery of the round-robin engine leaves alone
otherVars == <<progressiveVars, removalVars, toolVars>>

\* what the progressive engine and the removal workflows leave alone
outsideProgressive == <<rrVars, removalVars, toolVars>>
outsideRemoval == <<rrVars, progressiveVars, toolVars>>

\* what a function modelled on its own leaves alone
outsideCompare == <<rrVars, progressiveVars, removalVars, dbVars, retryVars,
                    filterVars, argsVars, hasherSetVars, hasherVars,
                    rootsVars, budgetVars>>
outsideDb == <<rrVars, progressiveVars, removalVars, compareVars, retryVars,
               filterVars, argsVars, hasherSetVars, hasherVars, rootsVars,
               budgetVars>>
outsideRetry == <<rrVars, progressiveVars, removalVars, compareVars, dbVars,
                  filterVars, argsVars, hasherSetVars, hasherVars, rootsVars,
                  budgetVars>>
outsideFilter == <<rrVars, progressiveVars, removalVars, compareVars, dbVars,
                   retryVars, argsVars, hasherSetVars, hasherVars, rootsVars,
                   budgetVars>>
outsideArgs == <<rrVars, progressiveVars, removalVars, compareVars, dbVars,
                 retryVars, filterVars, hasherSetVars, hasherVars, rootsVars,
                 budgetVars>>
outsideHasherSet == <<rrVars, progressiveVars, removalVars, compareVars,
                      dbVars, retryVars, filterVars, argsVars, hasherVars,
                      rootsVars, budgetVars>>
outsideHasher == <<rrVars, progressiveVars, removalVars, compareVars, dbVars,
                   retryVars, filterVars, argsVars, hasherSetVars, rootsVars,
                   budgetVars>>
outsideRoots == <<rrVars, progressiveVars, removalVars, compareVars, dbVars,
                  retryVars, filterVars, argsVars, hasherSetVars, hasherVars,
                  budgetVars>>
outsideBudget == <<rrVars, progressiveVars, removalVars, compareVars, dbVars,
                   retryVars, filterVars, argsVars, hasherSetVars,
                   hasherVars, rootsVars>>

vars == <<rrVars, progressiveVars, removalVars, toolVars>>

(***************************************************************************)
(* duplicates.rs: FileEntry, FileEntries, DeduperResult                    *)
(***************************************************************************)
FileEntry(path, size) == [path |-> path, size |-> size]

\* FileEntries::new(vec![])
EmptyEntries == [files |-> <<>>, file_size |-> 0]

\* The assert_eq! of FileEntries::push.
PushAsserts(entries, entry) ==
    entries.files = <<>> \/ entries.file_size = entry.size

\* a push that puts the entry in front of the others
push_front(entries, entry) ==
    IF entries.files = <<>>
    THEN [files |-> <<entry>>, file_size |-> entry.size]
    ELSE [files |-> <<entry>> \o entries.files, file_size |-> entries.file_size]

\* FileEntries::push, for an entry that passes the assertion.
push(entries, entry) ==
    IF entries.files = <<>>
    THEN [files |-> <<entry>>, file_size |-> entry.size]
    ELSE [files |-> Append(entries.files, entry), file_size |-> entries.file_size]

\* hashes.insert(hash, FileEntries::new(vec![])): the group starts over
GroupOfFresh(map, hash) == EmptyEntries

\* hashes.entry(hash).or_insert_with(|| FileEntries::new(vec![]))
GroupOf(map, hash) == IF hash \in DOMAIN map THEN map[hash] ELSE EmptyEntries

\* DeduperResult::add_entry
add_entry(map, hash, entry) ==
    [h \in DOMAIN map \cup {hash} |->
        IF h = hash THEN push(GroupOf(map, hash), entry) ELSE map[h]]

has_duplicates(entries) == Len(entries.files) > 1

\* DeduperResult::duplicates
duplicates(map) == {h \in DOMAIN map : has_duplicates(map[h])}

EmptyResult == [h \in {} |-> EmptyEntries]

(***************************************************************************)
(* lib.rs: hash_file reads the file to its end.                            *)
(***************************************************************************)
hash_file(content) == [ok |-> TRUE, size |-> Len(content), hash |-> Hash(content)]

ReadError == [ok |-> FALSE]

(***************************************************************************)
(* Initial state: a tree of NumFiles files, an empty cache file, the       *)
(* threads of find spawned.                                                *)
(***************************************************************************)
WorkerStart == IF useDb THEN "start" ELSE "recv"

FreshFate == [p \in Paths |-> "unseen"]

\* The progressive engine is not running.
ProgressiveIdle ==
    /\ files = <<>>
    /\ hashers = <<>>
    /\ stage = <<>>
    /\ responses = <<>>
    /\ awaited = 0
    /\ inner = <<>>
    /\ groups = <<>>
    /\ collector = "idle"
    /\ round = 0
    /\ round_size = 0
    /\ received = 0
    /\ holds = <<>>

\* No removal was asked for.
RemovalIdle ==
    /\ kind = "none"
    /\ cache = FALSE
    /\ rows = {}
    /\ disk = <<>>
    /\ dups = <<>>
    /\ rpc = "idle"
    /\ group = 0
    /\ sorted = <<>>
    /\ idx_i = 0
    /\ idx_j = 0
    /\ removed = {}
    /\ tried = {}
    /\ answer = "none"
    /\ choice = <<>>
    /\ prompted = FALSE
    /\ eof = FALSE

\* no comparison is running
CompareIdle ==
    /\ bytes1 = <<>>
    /\ bytes2 = <<>>
    /\ pos1 = 0
    /\ pos2 = 0
    /\ verdict = "idle"

\* no cache connection is open
DbIdle ==
    /\ conn = {}
    /\ calls = <<>>

\* retry_on_busy is not running
RetryIdle ==
    /\ outcomes = <<>>
    /\ retval = [kind |-> "none"]

\* no ContentLimit has been built
FilterIdle ==
    /\ lower_limit = [some |-> FALSE, value |-> 0]
    /\ upper_limit = [some |-> FALSE, value |-> 0]
    /\ md_size = 0
    /\ action = "none"

\* parse_args is not running
ArgsIdle ==
    /\ argv = <<>>
    /\ argi = 0
    /\ remove = "None"
    /\ roots = <<>>
    /\ parsed = "idle"

\* no HasherSet is exercised on its own
HasherSetIdle ==
    /\ hset = <<>>
    /\ inserted = <<>>
    /\ split = <<>>

\* no ProgressiveHasher is exercised on its own
HasherIdle ==
    /\ ondisk = <<>>
    /\ ph = <<>>

\* no walk over roots is exercised on its own
RootsIdle ==
    /\ tree = <<>>
    /\ root_list = <<>>
    /\ root_at = 0
    /\ entry_at = 0
    /\ found = <<>>

BudgetIdle ==
    /\ rlimit_nofile = 0
    /\ num_workers = 0
    /\ fds = 0
    /\ result_cap = 0
    /\ queue_cap = 0
    /\ bpc = "idle"

\* no function modelled on its own is running
ToolsIdle == CompareIdle /\ DbIdle /\ RetryIdle /\ FilterIdle /\ ArgsIdle /\ HasherSetIdle /\ HasherIdle /\ RootsIdle /\ BudgetIdle

Init ==
    /\ ProgressiveIdle
    /\ RemovalIdle
    /\ ToolsIdle
    /\ fs \in [Paths -> [content : Contents, mtime : {[sec |-> 1, nsec |-> 0]}]]
    /\ db = [p \in Paths |-> NoRow]
    /\ useDb \in BOOLEAN
    /\ run = "first"
    /\ modified = {}
    /\ prevOk = {}
    /\ pc = "walk"
    /\ pos = 1
    /\ held = NoTask
    /\ next_worker = 0
    /\ attempts = 0
    /\ joinIdx = 0
    /\ stopped = FALSE
    /\ senderDropped = [w \in Workers |-> FALSE]
    /\ inq = [w \in Workers |-> <<>>]
    /\ wpc = [w \in Workers |-> WorkerStart]
    /\ wtask = [w \in Workers |-> NoTask]
    /\ wres = [w \in Workers |-> NoRes]
    /\ resq = <<>>
    /\ cpc = "run"
    /\ hashes = EmptyResult
    /\ hooked = <<>>
    /\ is_partial = FALSE
    /\ fate = FreshFate

(***************************************************************************)
(* Deduper::find, the walk (lib.rs 97-134).                                *)
(***************************************************************************)
fsVars == <<fs, db, useDb, run, modified, prevOk>>
workerVars == <<inq, wpc, wtask, wres>>
collectorVars == <<resq, cpc, hashes, hooked, is_partial>>

\* The walk is over: `for (t, rx) in threads { drop(rx); t.join() ... }` begins
\* with dropping the first worker's sender.
StartJoin ==
    /\ pc' = "join"
    /\ joinIdx' = 0
    /\ senderDropped' = [senderDropped EXCEPT ![0] = TRUE]

\* `continue` (or the end of the loop body): the next walk entry, if any.
NextEntry ==
    /\ pos' = pos + 1
    /\ IF pos + 1 > NumFiles
       THEN StartJoin
       ELSE pc' = "walk" /\ UNCHANGED <<joinIdx, senderDropped>>

Skip(why) ==
    /\ pc = "walk"
    /\ fate' = [fate EXCEPT ![pos] = why]
    /\ NextEntry
    /\ UNCHANGED <<otherVars, fsVars, held, next_worker, attempts, stopped, workerVars,
                   collectorVars>>

\* the flag is set, but the walk goes on with the next entry
ShouldStopContinues ==
    /\ pc = "walk"
    /\ stopped' = TRUE
    /\ fate' = [fate EXCEPT ![pos] = "stop"]
    /\ NextEntry
    /\ UNCHANGED <<otherVars, fsVars, held, next_worker, attempts, workerVars,
                   collectorVars>>

\* stopper.should_stop() returned true: `stopped = true; break 'main`
ShouldStop ==
    /\ pc = "walk"
    /\ stopped' = TRUE
    /\ fate' = [fate EXCEPT ![pos] = "stop"]
    /\ StartJoin
    /\ UNCHANGED <<otherVars, fsVars, pos, held, next_worker, attempts, workerVars,
                   collectorVars>>

\* the walk entry is an Err
WalkError == Skip("error")

\* path.is_dir() || path.is_symlink()
DirOrSymlink == Skip("notfile")

\* path.metadata() failed
MetadataError == Skip("error")

\* the verdict is ignored: the excluded file is opened for dispatch
FilterExcludeDispatches ==
    /\ pc = "walk"
    /\ held' = [path |-> pos, mtime |-> fs[pos].mtime]
    /\ pc' = "dispatch"
    /\ attempts' = 0
    /\ fate' = [fate EXCEPT ![pos] = "excluded"]
    /\ UNCHANGED <<otherVars, fsVars, pos, next_worker, joinIdx, stopped, senderDropped,
                   workerVars, collectorVars>>

\* !file_filter.include_file(&path, &md)
FilterExclude == Skip("excluded")

\* File::open(&path) failed
OpenError == Skip("error")

\* the file is open: the dispatch loop starts
OpenFile ==
    /\ pc = "walk"
    /\ held' = [path |-> pos, mtime |-> fs[pos].mtime]
    /\ pc' = "dispatch"
    /\ attempts' = 0
    /\ fate' = [fate EXCEPT ![pos] = "opened"]
    /\ UNCHANGED <<otherVars, fsVars, pos, next_worker, joinIdx, stopped, senderDropped,
                   workerVars, collectorVars>>

(***************************************************************************)
(* Deduper::find, the round-robin dispatch (lib.rs 136-154).               *)
(***************************************************************************)
ReceiverGone(w) == wpc[w] \in {"exited", "failed"}

\* tx.try_send((path, file, mtime)) returned Ok
TrySendOk ==
    /\ pc = "dispatch"
    /\ attempts < NumThreads
    /\ ~ReceiverGone(next_worker)
    /\ HasRoom(ThreadCap, inq[next_worker], wpc[next_worker] = "recv")
    /\ inq' = [inq EXCEPT ![next_worker] = Append(@, held)]
    /\ next_worker' = (next_worker + 1) % NumThreads
    /\ held' = NoTask
    /\ attempts' = 0
    /\ fate' = [fate EXCEPT ![pos] = "sent"]
    /\ NextEntry
    /\ UNCHANGED <<otherVars, fsVars, stopped, wpc, wtask, wres, collectorVars>>

\* TrySendError::Full
TrySendFull ==
    /\ pc = "dispatch"
    /\ attempts < NumThreads
    /\ ~ReceiverGone(next_worker)
    /\ ~HasRoom(ThreadCap, inq[next_worker], wpc[next_worker] = "recv")
    /\ next_worker' = (next_worker + 1) % NumThreads
    /\ attempts' = attempts + 1
    /\ UNCHANGED <<otherVars, fsVars, pc, pos, held, joinIdx, stopped, senderDropped,
                   workerVars, collectorVars, fate>>

\* TrySendError::Disconnected
TrySendDisconnected ==
    /\ pc = "dispatch"
    /\ attempts < NumThreads
    /\ ReceiverGone(next_worker)
    /\ next_worker' = (next_worker + 1) % NumThreads
    /\ attempts' = attempts + 1
    /\ UNCHANGED <<otherVars, fsVars, pc, pos, held, joinIdx, stopped, senderDropped,
                   workerVars, collectorVars, fate>>

\* a dispatcher that yields after the first failed attempt
YieldEarly ==
    /\ pc = "dispatch"
    /\ attempts >= 1
    /\ attempts' = 0
    /\ UNCHANGED <<otherVars, fsVars, pc, pos, held, next_worker, joinIdx, stopped,
                   senderDropped, workerVars, collectorVars, fate>>

\* std::thread::yield_now() after a whole cycle without success
Yield ==
    /\ pc = "dispatch"
    /\ attempts = NumThreads
    /\ attempts' = 0
    /\ UNCHANGED <<otherVars, fsVars, pc, pos, held, next_worker, joinIdx, stopped,
                   senderDropped, workerVars, collectorVars, fate>>

(***************************************************************************)
(* Deduper::find, joining (lib.rs 157-168).                                *)
(***************************************************************************)
\* t.join().expect(..).expect("db operation failed"), then the next sender
JoinWorker ==
    /\ pc = "join"
    /\ wpc[joinIdx] \in {"exited", "failed"}
    /\ IF wpc[joinIdx] = "failed"
       THEN pc' = "panicked" /\ UNCHANGED <<joinIdx, senderDropped>>
       ELSE IF joinIdx + 1 < NumThreads
            THEN /\ joinIdx' = joinIdx + 1
                 /\ senderDropped' = [senderDropped EXCEPT ![joinIdx + 1] = TRUE]
                 /\ pc' = "join"
            ELSE pc' = "joincollector" /\ UNCHANGED <<joinIdx, senderDropped>>
    /\ UNCHANGED <<otherVars, fsVars, pos, held, next_worker, attempts, stopped,
                   workerVars, collectorVars, fate>>

\* set_partial that leaves the flag as it is
set_partial_keeps(partial) == partial

\* DeduperResult::set_partial
set_partial(partial) == TRUE

\* collector.join().expect(..); if stopped { duplicates.set_partial() }
JoinCollector ==
    /\ pc = "joincollector"
    /\ cpc \in {"done", "panicked"}
    /\ IF cpc = "done"
       THEN /\ pc' = "returned"
            /\ is_partial' = IF stopped THEN set_partial(is_partial) ELSE is_partial
       ELSE pc' = "panicked" /\ UNCHANGED is_partial
    /\ UNCHANGED <<otherVars, fsVars, pos, held, next_worker, attempts, joinIdx, stopped,
                   senderDropped, workerVars, resq, cpc, hashes, hooked, fate>>

(***************************************************************************)
(* hasher_task_with_caching / hasher_task (lib.rs 252-312).                *)
(***************************************************************************)
mainVars == <<pc, pos, held, next_worker, attempts, joinIdx, stopped,
              senderDropped>>

\* db::HashDb::try_new(db)?
WorkerOpenDb(w) ==
    /\ wpc[w] = "start"
    /\ wpc' = [wpc EXCEPT ![w] = "recv"]
    /\ UNCHANGED <<otherVars, fsVars, mainVars, inq, wtask, wres, collectorVars, fate>>

\* A sqlite error that retry_on_busy returns, in try_new, select or insert: the `?`
\* returns it from the worker, which drops its receiver and the tasks in it.
WorkerDbError(w) ==
    /\ useDb
    /\ wpc[w] \in {"start", "work"}
    /\ wpc' = [wpc EXCEPT ![w] = "failed"]
    /\ inq' = [inq EXCEPT ![w] = <<>>]
    /\ wtask' = [wtask EXCEPT ![w] = NoTask]
    /\ UNCHANGED <<otherVars, fsVars, mainVars, wres, collectorVars, fate>>

\* tasks.recv() returned a task
WorkerRecv(w) ==
    /\ wpc[w] = "recv"
    /\ inq[w] # <<>>
    /\ wtask' = [wtask EXCEPT ![w] = Head(inq[w])]
    /\ inq' = [inq EXCEPT ![w] = Tail(@)]
    /\ wpc' = [wpc EXCEPT ![w] = "work"]
    /\ UNCHANGED <<otherVars, fsVars, mainVars, wres, collectorVars, fate>>

\* a recv() that fails as soon as the sender is dropped
WorkerRecvClosedEarly(w) ==
    /\ wpc[w] = "recv"
    /\ senderDropped[w]
    /\ wpc' = [wpc EXCEPT ![w] = "exited"]
    /\ UNCHANGED <<otherVars, fsVars, mainVars, inq, wtask, wres, collectorVars, fate>>

\* tasks.recv() returned Err: the sender is dropped and the channel is empty
WorkerRecvClosed(w) ==
    /\ wpc[w] = "recv"
    /\ inq[w] = <<>>
    /\ senderDropped[w]
    /\ wpc' = [wpc EXCEPT ![w] = "exited"]
    /\ UNCHANGED <<otherVars, fsVars, mainVars, inq, wtask, wres, collectorVars, fate>>

\* `Some(entry) if entry.mtime == mtime.unix_seconds()`
CacheHit(row, mtime) == row # NoRow /\ row.mtime = unix_seconds(mtime)

\* a row written without the modification time
EntryWithoutMtime(mtime, res) ==
    [mtime |-> 0, size |-> res.size, hash |-> res.hash]

\* a row written without the size
EntryWithoutSize(mtime, res) ==
    [mtime |-> unix_seconds(mtime), size |-> 0, hash |-> res.hash]

\* db::Entry { path, mtime: mtime.unix_seconds(), size, hash }
Entry(mtime, res) ==
    [mtime |-> unix_seconds(mtime), size |-> res.size, hash |-> res.hash]

Result(path, res) ==
    IF res.ok
    THEN [path |-> path, ok |-> TRUE, size |-> res.size, hash |-> res.hash]
    ELSE [path |-> path, ok |-> FALSE]

\* the cache answers: Ok((entry.size, entry.hash)); the file is not read, and
\* stays open until the end of the loop body
WorkerCached(w) ==
    LET t == wtask[w] IN
    /\ useDb
    /\ wpc[w] = "work"
    /\ CacheHit(db[t.path], t.mtime)
    /\ wres' = [wres EXCEPT ![w] =
                  [path |-> t.path, ok |-> TRUE, size |-> db[t.path].size,
                   hash |-> db[t.path].hash]]
    /\ wpc' = [wpc EXCEPT ![w] = "send"]
    /\ fate' = [fate EXCEPT ![t.path] = "cached"]
    /\ UNCHANGED <<otherVars, fsVars, mainVars, inq, wtask, collectorVars>>

\* hash_file(file) succeeded; with the cache on, the row is written
WorkerHashed(w) ==
    LET t == wtask[w]
        res == hash_file(fs[t.path].content) IN
    /\ wpc[w] = "work"
    /\ useDb => ~CacheHit(db[t.path], t.mtime)
    /\ db' = IF useDb THEN [db EXCEPT ![t.path] = Entry(t.mtime, res)] ELSE db
    /\ wres' = [wres EXCEPT ![w] = Result(t.path, res)]
    /\ wpc' = [wpc EXCEPT ![w] = "send"]
    /\ wtask' = [wtask EXCEPT ![w] = NoTask]
    /\ fate' = [fate EXCEPT ![t.path] = "hashed"]
    /\ UNCHANGED <<otherVars, fs, useDb, run, modified, prevOk, mainVars, inq, collectorVars>>

\* hash_file(file) failed: the error is sent on, nothing is written
WorkerReadError(w) ==
    LET t == wtask[w] IN
    /\ wpc[w] = "work"
    /\ useDb => ~CacheHit(db[t.path], t.mtime)
    /\ wres' = [wres EXCEPT ![w] = Result(t.path, ReadError)]
    /\ wpc' = [wpc EXCEPT ![w] = "send"]
    /\ wtask' = [wtask EXCEPT ![w] = NoTask]
    /\ fate' = [fate EXCEPT ![t.path] = "readerror"]
    /\ UNCHANGED <<otherVars, fsVars, mainVars, inq, collectorVars>>

\* tx.send((path, res)) returned Ok
WorkerSend(w) ==
    /\ wpc[w] = "send"
    /\ cpc = "run"
    /\ Len(resq) < Fds
    /\ resq' = Append(resq, wres[w])
    /\ wres' = [wres EXCEPT ![w] = NoRes]
    /\ wtask' = [wtask EXCEPT ![w] = NoTask]
    /\ wpc' = [wpc EXCEPT ![w] = "recv"]
    /\ UNCHANGED <<otherVars, fsVars, mainVars, inq, cpc, hashes, hooked, is_partial, fate>>

\* tx.send failed, the collector is gone: "failed to send hash, quiting..."
WorkerSendFailed(w) ==
    /\ wpc[w] = "send"
    /\ cpc # "run"
    /\ wres' = [wres EXCEPT ![w] = NoRes]
    /\ wtask' = [wtask EXCEPT ![w] = NoTask]
    /\ wpc' = [wpc EXCEPT ![w] = "exited"]
    /\ inq' = [inq EXCEPT ![w] = <<>>]
    /\ UNCHANGED <<otherVars, fsVars, mainVars, collectorVars, fate>>

\* the calls of the hook so far: a bag of (hash, entry)
HookCall(hash, entry) == [hash |-> hash, entry |-> entry]

\* a hook that is not called
entry_not_processed(log, hash, entry) == log

\* hooks.entry_processed(hash, &entry)
entry_processed(log, hash, entry) ==
    LET c == HookCall(hash, entry) IN
    IF c \in DOMAIN log THEN [log EXCEPT ![c] = @ + 1] ELSE log @@ (c :> 1)

\* the collector stops receiving at the first Err message
CollectStopsOnError ==
    /\ cpc = "run"
    /\ resq # <<>>
    /\ LET m == Head(resq) IN
       IF ~m.ok
       THEN cpc' = "done" /\ resq' = <<>> /\ UNCHANGED <<hashes, hooked>>
       ELSE /\ resq' = Tail(resq)
            /\ hooked' = entry_processed(hooked, m.hash, FileEntry(m.path, m.size))
            /\ hashes' = add_entry(hashes, m.hash, FileEntry(m.path, m.size))
            /\ cpc' = cpc
    /\ UNCHANGED <<otherVars, fsVars, mainVars, workerVars, is_partial, fate>>

(***************************************************************************)
(* collect (lib.rs 314-333).                                               *)
(***************************************************************************)
\* rx.recv() returned a message
Collect ==
    /\ cpc = "run"
    /\ resq # <<>>
    /\ resq' = Tail(resq)
    /\ LET m == Head(resq) IN
       IF ~m.ok
       THEN UNCHANGED <<cpc, hashes, hooked>>
       ELSE /\ hooked' = entry_processed(hooked, m.hash, FileEntry(m.path, m.size))
            /\ IF PushAsserts(GroupOf(hashes, m.hash), FileEntry(m.path, m.size))
               THEN /\ hashes' = add_entry(hashes, m.hash, FileEntry(m.path, m.size))
                    /\ cpc' = cpc
               ELSE cpc' = "panicked" /\ UNCHANGED hashes
    /\ UNCHANGED <<otherVars, fsVars, mainVars, workerVars, is_partial, fate>>

\* hooks.entry_processed is the caller's code: a panic in it ends the
\* collector thread, which drops rx and the messages in it.
CollectHookPanics ==
    /\ cpc = "run"
    /\ resq # <<>>
    /\ Head(resq).ok
    /\ cpc' = "panicked"
    /\ resq' = <<>>
    /\ LET m == Head(resq) IN
       hooked' = entry_processed(hooked, m.hash, FileEntry(m.path, m.size))
    /\ UNCHANGED <<otherVars, fsVars, mainVars, workerVars, hashes, is_partial, fate>>

\* rx.recv() returned Err: every sender is dropped and the channel is empty
CollectEnd ==
    /\ cpc = "run"
    /\ resq = <<>>
    /\ \A w \in Workers : wpc[w] \in {"exited", "failed"}
    /\ cpc' = "done"
    /\ UNCHANGED <<otherVars, fsVars, mainVars, workerVars, resq, hashes, hooked, is_partial, fate>>

(***************************************************************************)
(* Between two discoveries: the caller's files change, find is called      *)
(* again on the same Deduper (same roots, same cache file).                *)
(***************************************************************************)
engineVars == <<pc, pos, held, next_worker, attempts, joinIdx, stopped,
                senderDropped, inq, wpc, wtask, wres, resq, cpc, hashes, hooked,
                is_partial, fate>>

\* One file is rewritten: its content changes and so does its modification
\* time, by a second or within the same second.
Modify(p) ==
    /\ run = "first"
    /\ pc = "returned"
    /\ modified = {}
    /\ \E c \in Contents \ {fs[p].content} :
       \E t \in {[sec |-> fs[p].mtime.sec + 1, nsec |-> fs[p].mtime.nsec],
                 [sec |-> fs[p].mtime.sec, nsec |-> fs[p].mtime.nsec + 1]} :
          fs' = [fs EXCEPT ![p] = [content |-> c, mtime |-> t]]
    /\ modified' = modified \cup {p}
    /\ UNCHANGED <<otherVars, db, useDb, run, prevOk, engineVars>>

\* The second call of find: new channels, new threads, a new result.
Restart ==
    /\ run = "first"
    /\ pc = "returned"
    /\ useDb
    /\ run' = "second"
    /\ prevOk' = {p \in Paths : fate[p] \in {"hashed", "cached"}}
    /\ pc' = "walk"
    /\ pos' = 1
    /\ held' = NoTask
    /\ next_worker' = 0
    /\ attempts' = 0
    /\ joinIdx' = 0
    /\ stopped' = FALSE
    /\ senderDropped' = [w \in Workers |-> FALSE]
    /\ inq' = [w \in Workers |-> <<>>]
    /\ wpc' = [w \in Workers |-> WorkerStart]
    /\ wtask' = [w \in Workers |-> NoTask]
    /\ wres' = [w \in Workers |-> NoRes]
    /\ resq' = <<>>
    /\ cpc' = "run"
    /\ hashes' = EmptyResult
    /\ hooked' = <<>>
    /\ is_partial' = FALSE
    /\ fate' = FreshFate
    /\ UNCHANGED <<fs, db, useDb, modified>>
    /\ UNCHANGED otherVars

Next ==
    \/ ShouldStop \/ WalkError \/ DirOrSymlink \/ MetadataError
    \/ FilterExclude \/ OpenError \/ OpenFile
    \/ TrySendOk \/ TrySendFull \/ TrySendDisconnected \/ Yield
    \/ JoinWorker \/ JoinCollector
    \/ \E w \in Workers :
          \/ WorkerOpenDb(w) \/ WorkerDbError(w) \/ WorkerRecv(w)
          \/ WorkerRecvClosed(w) \/ WorkerCached(w) \/ WorkerHashed(w)
          \/ WorkerReadError(w) \/ WorkerSend(w) \/ WorkerSendFailed(w)
    \/ Collect \/ CollectHookPanics \/ CollectEnd
    \/ Restart
    \/ \E p \in Paths : Modify(p)

Spec == Init /\ [][Next]_vars

(***************************************************************************)
(* The same discovery with the scheduling of its threads: the thread of    *)
(* find, every worker and the collector keep being scheduled while they    *)
(* can take a step.  Nothing is assumed about the rewrite of a file or a   *)
(* second call of find.                                                    *)
(***************************************************************************)
FindStep ==
    \/ ShouldStop \/ WalkError \/ DirOrSymlink \/ MetadataError
    \/ FilterExclude \/ OpenError \/ OpenFile
    \/ TrySendOk \/ TrySendFull \/ TrySendDisconnected \/ Yield
    \/ JoinWorker \/ JoinCollector

WorkerStep(w) ==
    \/ WorkerOpenDb(w) \/ WorkerDbError(w) \/ WorkerRecv(w)
    \/ WorkerRecvClosed(w) \/ WorkerCached(w) \/ WorkerHashed(w)
    \/ WorkerReadError(w) \/ WorkerSend(w) \/ WorkerSendFailed(w)

CollectorStep == Collect \/ CollectHookPanics \/ CollectEnd

SpecFair ==
    /\ Init
    /\ [][Next]_vars
    /\ WF_vars(FindStep)
    /\ \A w \in Workers : WF_vars(WorkerStep(w))
    /\ WF_vars(CollectorStep)

(***************************************************************************)
(* file.rs: FilePath, a path and the metadata read once by try_new.        *)
(***************************************************************************)
\* the bytes a file of the progressive engine may hold
Bytes == {1, 2}
FileContents == UNION {[1..n -> Bytes] : n \in 0..MaxLen}

\* FilePath::try_new(path): metadata.len() is the length at that moment
FilePath(path, content) == [path |-> path, len |-> Len(content)]

\* FilePath::to_file_entry
to_file_entry(file_path) == FileEntry(file_path.path, file_path.len)

(***************************************************************************)
(* hasher.rs: ProgressiveHasher.  The state of the blake3 hasher is the    *)
(* sequence of bytes it was fed; finalize() is Hash of that sequence.      *)
(***************************************************************************)
\* MIN_TO_READ = 16 * 1024 * 1024, scaled to two bytes
MIN_TO_READ == 2

\* a hasher that starts behind the first chunk
new_behind_first_chunk(file_path) ==
    [hasher |-> <<>>, file_path |-> file_path,
     len_hashed |-> Min(file_path.len, MIN_TO_READ)]

\* ProgressiveHasher::new
new(file_path) == [hasher |-> <<>>, file_path |-> file_path, len_hashed |-> 0]

\* a read that forgets the seek: file.take(n) from the start of the file
take_from_start(content, offset, n) == SubSeq(content, 1, Min(n, Len(content)))

\* file.seek(SeekFrom::Start(offset)); file.take(n), read to its end: the
\* bytes offset+1 .. offset+n of the file, as far as the file goes
seek_take(content, offset, n) ==
    SubSeq(content, offset + 1, Min(offset + n, Len(content)))

\* an update that takes two chunks in one call
update_two_chunks(h, content) ==
    LET leftover == h.file_path.len - h.len_hashed
        bytes_to_take == Min(leftover, 2 * MIN_TO_READ) IN
    [h EXCEPT !.hasher = @ \o seek_take(content, h.len_hashed, bytes_to_take),
              !.len_hashed = @ + bytes_to_take]

\* ProgressiveHasher::update, on a file holding `content`
update(h, content) ==
    LET leftover == h.file_path.len - h.len_hashed
        bytes_to_take == Min(leftover, MIN_TO_READ) IN
    [h EXCEPT !.hasher = @ \o seek_take(content, h.len_hashed, bytes_to_take),
              !.len_hashed = @ + bytes_to_take]

\* ProgressiveHasher::current_hash
current_hash(h) ==
    [hash |-> Hash(h.hasher), done |-> h.len_hashed = h.file_path.len]

(***************************************************************************)
(* hasher.rs: HasherSet.  A hasher in the set is named by its path.        *)
(***************************************************************************)
EmptySet == [d \in {} |-> <<>>]

\* HasherSet::insert: inner.entry(current_hash().0).or_default().push(hasher)
insert(set, h) ==
    LET d == current_hash(h).hash
        old == IF d \in DOMAIN set THEN set[d] ELSE <<>> IN
    [k \in DOMAIN set \cup {d} |->
        IF k = d THEN Append(old, h.file_path.path) ELSE set[k]]

\* The hashers of the buckets `ds`, pushed or extended into one Vec.  The
\* order of the buckets of a HashMap is not specified: the Vec is kept as a
\* bag, each hasher with the number of times it is in the Vec.
VecOf(set, ds) ==
    LET slots == UNION {{<<d, n>> : n \in 1..Len(set[d])} : d \in ds}
        names == {set[s[1]][s[2]] : s \in slots} IN
    [p \in names |-> Cardinality({s \in slots : set[s[1]][s[2]] = p})]

\* a split that takes a bucket of two for finished
filter_pairs_finished(set) ==
    [finished |-> VecOf(set, {k \in DOMAIN set : Len(set[k]) <= 2}),
     output   |-> VecOf(set, {k \in DOMAIN set : Len(set[k]) > 2})]

\* HasherSet::filter_unfinished_duplicates: (finished_hashers, output_hashers)
filter_unfinished_duplicates(set) ==
    [finished |-> VecOf(set, {k \in DOMAIN set : Len(set[k]) = 1}),
     output   |-> VecOf(set, {k \in DOMAIN set : Len(set[k]) # 1})]

(***************************************************************************)
(* The refinement loop of the collector and the workers of the progressive *)
(* engine, after the design of the grouping engine: every round each       *)
(* dispatched hasher is advanced by one chunk and answered; an error drops *)
(* the hasher, a done hasher is finalized, any other is put into the       *)
(* round's HasherSet; at the end of the round the hashers alone under      *)
(* their digest are finalized at that digest and the others go on.         *)
(***************************************************************************)
\* No discovery of the round-robin engine is running.
RoundRobinIdle ==
    /\ fs = <<>>
    /\ db = <<>>
    /\ useDb = FALSE
    /\ run = "none"
    /\ modified = {}
    /\ prevOk = {}
    /\ pc = "idle"
    /\ pos = 0
    /\ held = NoTask
    /\ next_worker = 0
    /\ attempts = 0
    /\ joinIdx = 0
    /\ stopped = FALSE
    /\ senderDropped = <<>>
    /\ inq = <<>>
    /\ wpc = <<>>
    /\ wtask = <<>>
    /\ wres = <<>>
    /\ resq = <<>>
    /\ cpc = "idle"
    /\ hashes = <<>>
    /\ hooked = <<>>
    /\ is_partial = FALSE
    /\ fate = <<>>

\* The walk is over: one hasher per file, all dispatched for the first round.
ProgInit ==
    /\ RoundRobinIdle
    /\ RemovalIdle
    /\ ToolsIdle
    /\ files \in [Paths -> FileContents]
    /\ hashers = [p \in Paths |-> new(FilePath(p, files[p]))]
    /\ stage = [p \in Paths |-> "dispatched"]
    /\ responses = <<>>
    /\ awaited = NumFiles
    /\ inner = EmptySet
    /\ groups = EmptyResult
    /\ collector = "round"
    /\ round = 1
    /\ round_size = NumFiles
    /\ received = 0
    /\ holds = [w \in Workers |-> 0]

\* a worker without a hasher receives one that was dispatched
Take(w, p) ==
    /\ holds[w] = 0
    /\ stage[p] = "dispatched"
    /\ holds' = [holds EXCEPT ![w] = p]
    /\ stage' = [stage EXCEPT ![p] = "working"]
    /\ UNCHANGED <<outsideProgressive, files, hashers, responses, awaited, inner,
                   groups, collector, round, round_size, received>>

\* the worker gives the hasher it holds away
Release(p) == [w \in Workers |-> IF holds[w] = p THEN 0 ELSE holds[w]]

\* a worker: update() succeeded, (hasher, Ok) is sent to the collector
Advance(p) ==
    /\ stage[p] = "working"
    /\ holds' = Release(p)
    /\ hashers' = [hashers EXCEPT ![p] = update(@, files[p])]
    /\ responses' = Append(responses, [path |-> p, ok |-> TRUE])
    /\ stage' = [stage EXCEPT ![p] = "responded"]
    /\ UNCHANGED <<outsideProgressive, files, awaited, inner, groups, collector,
                   round, round_size, received>>

\* a worker: update() failed in open, seek or read; (hasher, Err) is sent
AdvanceError(p) ==
    /\ stage[p] = "working"
    /\ holds' = Release(p)
    /\ responses' = Append(responses, [path |-> p, ok |-> FALSE])
    /\ stage' = [stage EXCEPT ![p] = "responded"]
    /\ UNCHANGED <<outsideProgressive, files, hashers, awaited, inner, groups,
                   collector, round, round_size, received>>

\* the collector adds an entry to the result; the assertion of push may fail
Finalized(p) ==
    LET h == hashers[p]
        hash == current_hash(h).hash
        entry == to_file_entry(h.file_path) IN
    IF PushAsserts(GroupOf(groups, hash), entry)
    THEN /\ groups' = add_entry(groups, hash, entry)
         /\ stage' = [stage EXCEPT ![p] = "final"]
         /\ UNCHANGED collector
    ELSE /\ collector' = "panicked"
         /\ UNCHANGED <<groups, stage>>

\* the collector takes one response of the round
Receive ==
    /\ collector = "round"
    /\ responses # <<>>
    /\ responses' = Tail(responses)
    /\ awaited' = awaited - 1
    /\ received' = received + 1
    /\ LET m == Head(responses) IN
       IF ~m.ok
       THEN /\ stage' = [stage EXCEPT ![m.path] = "dropped"]
            /\ UNCHANGED <<inner, groups, collector>>
       ELSE IF current_hash(hashers[m.path]).done
            THEN Finalized(m.path) /\ UNCHANGED inner
            ELSE /\ inner' = insert(inner, hashers[m.path])
                 /\ stage' = [stage EXCEPT ![m.path] = "set"]
                 /\ UNCHANGED <<groups, collector>>
    /\ UNCHANGED <<outsideProgressive, files, hashers, round, round_size, holds>>

\* all responses of the round are in: the set is split
EndRound ==
    /\ collector = "round"
    /\ awaited = 0
    /\ LET finished == filter_unfinished_duplicates(inner).finished IN
       stage' = [p \in Paths |-> IF p \in DOMAIN finished THEN "single" ELSE stage[p]]
    /\ inner' = EmptySet
    /\ collector' = "finalize"
    /\ UNCHANGED <<outsideProgressive, files, hashers, responses, awaited, groups,
                   round, round_size, received, holds>>

\* a hasher alone under its digest is finalized at its current digest
FinalizeSingle(p) ==
    /\ collector = "finalize"
    /\ stage[p] = "single"
    /\ Finalized(p)
    /\ UNCHANGED <<outsideProgressive, files, hashers, responses, awaited, inner,
                   round, round_size, received, holds>>

\* the hashers that shared a digest are dispatched again; with none left the
\* loop ends
NextRound ==
    /\ collector = "finalize"
    /\ \A p \in Paths : stage[p] # "single"
    /\ LET output == {p \in Paths : stage[p] = "set"} IN
       IF output = {}
       THEN /\ collector' = "done"
            /\ UNCHANGED <<stage, awaited, round, round_size, received>>
       ELSE /\ stage' = [p \in Paths |-> IF p \in output THEN "dispatched" ELSE stage[p]]
            /\ awaited' = Cardinality(output)
            /\ collector' = "round"
            /\ round' = round + 1
            /\ round_size' = Cardinality(output)
            /\ received' = 0
    /\ UNCHANGED <<outsideProgressive, files, hashers, responses, inner, groups,
                   holds>>

ProgNext ==
    \/ \E w \in Workers, p \in Paths : Take(w, p)
    \/ \E p \in Paths : Advance(p) \/ AdvanceError(p) \/ FinalizeSingle(p)
    \/ Receive \/ EndRound \/ NextRound

SpecProg == ProgInit /\ [][ProgNext]_vars

\* the steps of the worker threads and of the collector thread
ProgWorkerStep ==
    \/ \E w \in Workers, p \in Paths : Take(w, p)
    \/ \E p \in Paths : Advance(p) \/ AdvanceError(p)
ProgCollectorStep ==
    \/ Receive \/ EndRound \/ NextRound
    \/ \E p \in Paths : FinalizeSingle(p)

\* The threads are scheduled by the operating system: a worker with a hasher
\* to advance and a collector with something to do are run in the end.
SpecProgFair ==
    /\ ProgInit
    /\ [][ProgNext]_vars
    /\ WF_vars(ProgWorkerStep)
    /\ WF_vars(ProgCollectorStep)

(***************************************************************************)
(* duped-cli/src/main.rs: remove_file and the three removal workflows,     *)
(* run on the duplicate groups of a discovery.                             *)
(***************************************************************************)
RemovePaths == 1..NumEntries

\* file names (the last component of a path) and contents on disk
Names == {"a", "b"}
DiskFiles == [exists : {TRUE}, name : Names, content : 1..2]

\* the paths k, k-1, .., 1 and those after k: groups in insertion order
Downto(hi, lo) == [n \in 1..(hi - lo + 1) |-> hi + 1 - n]
GroupsSplitAt(k) ==
    IF NumEntries - k >= 2
    THEN <<Downto(k, 1), Downto(NumEntries, k + 1)>>
    ELSE <<Downto(k, 1)>>

\* a discovery whose roots overlap (a root listed twice, a root inside
\* another) walks a file once per root and pushes its path onto its group
\* each time: the first group with the path `again` pushed a second time
WalkedTwice(gs, again) ==
    IF again = 0 THEN gs ELSE [gs EXCEPT ![1] = Append(@, again)]

\* entries.sort_by(|l, r| l.cmp(r))
\* the k-th of the sorted entries is the path x with fewer than k entries
\* below it and at least k entries not above it
sort_by(s) ==
    [k \in 1..Len(s) |->
        CHOOSE x \in Range(s) :
            /\ Cardinality({n \in 1..Len(s) : s[n] < x}) < k
            /\ k <= Cardinality({n \in 1..Len(s) : s[n] <= x})]

\* a DELETE that removes nothing
db_remove_nothing(table, path) == table

\* HashDb::remove: DELETE FROM path WHERE path.path = ?1
db_remove(table, path) == table \ {path}

RemoveInit ==
    /\ RoundRobinIdle
    /\ ProgressiveIdle
    /\ ToolsIdle
    /\ kind \in {"interactive", "same_filename", "paranoid"}
    /\ cache \in BOOLEAN
    /\ rows = IF cache THEN RemovePaths ELSE {}
    /\ disk \in [RemovePaths -> DiskFiles]
    \* names are read by same_filename_removal only, contents by same_content
    /\ kind # "same_filename" => \A p \in RemovePaths : disk[p].name = "a"
    /\ kind # "paranoid" => \A p \in RemovePaths : disk[p].content = 1
    /\ \E k \in 2..NumEntries, again \in 0..NumEntries :
          /\ again <= k
          /\ dups = WalkedTwice(GroupsSplitAt(k), again)
    /\ rpc = "start"
    /\ group = 1
    /\ sorted = <<>>
    /\ idx_i = 0
    /\ idx_j = 0
    /\ removed = {}
    /\ tried = {}
    /\ answer = "none"
    /\ choice = <<>>
    /\ prompted = FALSE
    /\ eof = FALSE

\* let db = db.map(|db| HashDb::try_new(db).unwrap());
OpenCache ==
    /\ rpc = "start"
    /\ rpc' = "group"
    /\ UNCHANGED <<outsideRemoval, kind, cache, rows, disk, dups, group,
                   sorted, idx_i, idx_j, removed, tried, answer, stdinVars>>

OpenCacheFails ==
    /\ rpc = "start"
    /\ cache
    /\ rpc' = "panicked"
    /\ UNCHANGED <<outsideRemoval, kind, cache, rows, disk, dups, group,
                   sorted, idx_i, idx_j, removed, tried, answer, stdinVars>>

\* for (hash, entries) in duplicates.duplicates(): the next group is sorted
BeginGroup ==
    /\ rpc = "group"
    /\ group <= Len(dups)
    /\ sorted' = sort_by(dups[group])
    /\ idx_i' = 0
    /\ idx_j' = 1
    /\ rpc' = "pair"
    /\ UNCHANGED <<outsideRemoval, kind, cache, rows, disk, dups, group,
                   removed, tried, answer, stdinVars>>

\* no group is left: the workflow returns
EndGroups ==
    /\ rpc = "group"
    /\ group > Len(dups)
    /\ rpc' = "done"
    /\ UNCHANGED <<outsideRemoval, kind, cache, rows, disk, dups, group,
                   sorted, idx_i, idx_j, removed, tried, answer, stdinVars>>

\* remove_file(path, db): fs_ok and db_ok are the outcomes of
\* std::fs::remove_file and of db.remove(path); the latter is unwrapped
remove_file(path, fs_ok, db_ok) ==
    IF ~fs_ok
    THEN tried' = tried \cup {path} /\ UNCHANGED <<disk, rows, removed, rpc>>
    ELSE /\ disk' = [disk EXCEPT ![path].exists = FALSE]
         /\ removed' = removed \cup {path}
         /\ tried' = tried \cup {path}
         /\ IF ~cache
            THEN UNCHANGED <<rows, rpc>>
            ELSE IF db_ok
                 THEN rows' = db_remove(rows, path) /\ UNCHANGED rpc
                 ELSE rpc' = "panicked" /\ UNCHANGED rows

\* std::fs::remove_file can succeed only on a file that exists
FsOutcomes(path) == IF disk[path].exists THEN BOOLEAN ELSE {FALSE}

\* the path entries[n] of the source, n counted from 0
EntryAt(n) == sorted[n + 1]

\* interactive_removal: `while i < j && j < entries.len()`
PairLeft == idx_i < idx_j /\ idx_j < Len(sorted)

\* the inner loop of a group is over
EndGroup ==
    /\ rpc = "pair"
    /\ IF kind = "interactive" THEN ~PairLeft ELSE idx_j >= Len(sorted)
    /\ group' = group + 1
    /\ rpc' = "group"
    /\ UNCHANGED <<outsideRemoval, kind, cache, rows, disk, dups, sorted,
                   idx_i, idx_j, removed, tried, answer, stdinVars>>

\* the lines stdin can deliver: the three answers, a line that is none of
\* them, and a line of white space only
Lines == {"1", "2", "s", "x", ""}

\* what one stdin.read_line brings: a line, or nothing at the end of input;
\* the input is finite and has at most MaxLines lines for a pair
ReadOutcomes ==
    IF eof \/ Len(choice) >= MaxLines THEN {"EOF"} ELSE Lines \cup {"EOF"}

\* stdin.read_line(&mut choice): the line is appended to the buffer, and
\* Ok(0) at the end of input appends nothing
read_line(buf, got) == IF got = "EOF" THEN buf ELSE Append(buf, got)

\* choice.trim(): white space is taken off both ends of the buffer, the
\* lines between two lines that are not blank stay
trim(buf) ==
    LET kept == {n \in 1..Len(buf) : buf[n] # ""} IN
    IF kept = {} THEN <<>>
    ELSE SubSeq(buf, CHOOSE n \in kept : \A m \in kept : n <= m,
                     CHOOSE n \in kept : \A m \in kept : n >= m)

\* print!(..) and std::io::stdout().flush() of one turn of `while read`
Prompt ==
    /\ rpc = "pair" /\ kind = "interactive" /\ PairLeft
    /\ ~prompted
    /\ prompted' = TRUE
    /\ UNCHANGED <<outsideRemoval, kind, cache, rows, disk, dups, rpc, group,
                   sorted, idx_i, idx_j, removed, tried, answer, choice, eof>>

\* read_line and `match choice.trim()` of one turn come to the arm `want`;
\* the next pair starts with a new `choice`
Matched(want) ==
    /\ prompted
    /\ \E got \in ReadOutcomes :
          /\ trim(read_line(choice, got)) = <<want>>
          /\ eof' = (eof \/ got = "EOF")
    /\ choice' = <<>>
    /\ prompted' = FALSE

\* "s" => { i = j + 1; j += 2; }
ChoiceSkip ==
    /\ rpc = "pair" /\ kind = "interactive" /\ PairLeft
    /\ Matched("s")
    /\ idx_i' = idx_j + 1
    /\ idx_j' = idx_j + 2
    /\ UNCHANGED <<outsideRemoval, kind, cache, rows, disk, dups, rpc,
                   group, sorted, removed, tried, answer>>

\* answer 1 taken as a removal of the second path of the pair
ChoiceFirstRemovesSecond ==
    /\ rpc = "pair" /\ kind = "interactive" /\ PairLeft
    /\ Matched("1")
    /\ \E fs_ok \in FsOutcomes(EntryAt(idx_j)), db_ok \in BOOLEAN :
          remove_file(EntryAt(idx_j), fs_ok, db_ok)
    /\ idx_i' = idx_j
    /\ idx_j' = idx_j + 1
    /\ UNCHANGED <<outsideRemoval, kind, cache, dups, group, sorted, answer>>

\* "1" => { remove_file(path1, db.as_ref()); i = j; j += 1; }
ChoiceFirst ==
    /\ rpc = "pair" /\ kind = "interactive" /\ PairLeft
    /\ Matched("1")
    /\ \E fs_ok \in FsOutcomes(EntryAt(idx_i)), db_ok \in BOOLEAN :
          remove_file(EntryAt(idx_i), fs_ok, db_ok)
    /\ idx_i' = idx_j
    /\ idx_j' = idx_j + 1
    /\ UNCHANGED <<outsideRemoval, kind, cache, dups, group, sorted, answer>>

\* "2" => { remove_file(path2, db.as_ref()); j += 1; }
ChoiceSecond ==
    /\ rpc = "pair" /\ kind = "interactive" /\ PairLeft
    /\ Matched("2")
    /\ \E fs_ok \in FsOutcomes(EntryAt(idx_j)), db_ok \in BOOLEAN :
          remove_file(EntryAt(idx_j), fs_ok, db_ok)
    /\ idx_j' = idx_j + 1
    /\ UNCHANGED <<outsideRemoval, kind, cache, dups, group, sorted, idx_i, answer>>

\* _ => read = true: the buffer is kept and the prompt is printed again
ChoiceOther ==
    /\ rpc = "pair" /\ kind = "interactive" /\ PairLeft
    /\ prompted
    /\ \E got \in ReadOutcomes :
          /\ trim(read_line(choice, got)) \notin {<<"1">>, <<"2">>, <<"s">>}
          /\ choice' = read_line(choice, got)
          /\ eof' = (eof \/ got = "EOF")
    /\ prompted' = FALSE
    /\ UNCHANGED <<outsideRemoval, kind, cache, rows, disk, dups, rpc, group,
                   sorted, idx_i, idx_j, removed, tried, answer>>

\* flushing stdout or reading stdin failed: return Err(e)
ChoiceIoError ==
    /\ rpc = "pair" /\ kind = "interactive" /\ PairLeft
    /\ rpc' = "failed"
    /\ UNCHANGED <<outsideRemoval, kind, cache, rows, disk, dups, group,
                   sorted, idx_i, idx_j, removed, tried, answer, stdinVars>>

\* same_filename_removal: `for dup_path in &entries[1..]`, one iteration
SameFilename ==
    /\ rpc = "pair" /\ kind = "same_filename" /\ idx_j < Len(sorted)
    /\ LET dup_path == EntryAt(idx_j) IN
       IF disk[dup_path].name = disk[EntryAt(0)].name
       THEN \E fs_ok \in FsOutcomes(dup_path), db_ok \in BOOLEAN :
               remove_file(dup_path, fs_ok, db_ok)
       ELSE UNCHANGED <<disk, rows, removed, rpc, tried>>
    /\ idx_j' = idx_j + 1
    /\ UNCHANGED <<outsideRemoval, kind, cache, dups, group, sorted, idx_i, answer, stdinVars>>

\* a comparison that reports every pair of files equal
same_content_always_true(p1, p2, reads) == "Ok(true)"

\* same_content(p1, p2) on the files of the disk: Err when a file cannot be
\* opened or read; Ok(true) when the contents are equal and the reads of the
\* two files return the same numbers of bytes ("full"); Ok(false) otherwise,
\* also for equal contents when the reads differ in length ("short")
same_content(p1, p2, reads) ==
    IF reads = "error" \/ ~disk[p1].exists \/ ~disk[p2].exists THEN "Err"
    ELSE IF reads = "full" /\ disk[p1].content = disk[p2].content
         THEN "Ok(true)" ELSE "Ok(false)"

\* paranoid_removal: `for dup_path in &entries[1..]`, one iteration
Paranoid ==
    /\ rpc = "pair" /\ kind = "paranoid" /\ idx_j < Len(sorted)
    /\ LET dup_path == EntryAt(idx_j) IN
       \E reads \in {"full", "short", "error"} :
          /\ answer' = same_content(EntryAt(0), dup_path, reads)
          /\ IF answer' = "Ok(true)"
             THEN \E fs_ok \in FsOutcomes(dup_path), db_ok \in BOOLEAN :
                     remove_file(dup_path, fs_ok, db_ok)
             ELSE UNCHANGED <<disk, rows, removed, rpc, tried>>
    /\ idx_j' = idx_j + 1
    /\ UNCHANGED <<outsideRemoval, kind, cache, dups, group, sorted, idx_i,
                   stdinVars>>

RemoveNext ==
    \/ OpenCache \/ OpenCacheFails \/ BeginGroup \/ EndGroups \/ EndGroup
    \/ Prompt
    \/ ChoiceSkip \/ ChoiceFirst \/ ChoiceSecond \/ ChoiceOther \/ ChoiceIoError
    \/ SameFilename \/ Paranoid

SpecRemove == RemoveInit /\ [][RemoveNext]_vars

\* the workflow is one thread that is never held back
SpecRemoveFair == SpecRemove /\ WF_vars(RemoveNext)

\* no discovery and no removal workflow is running
MainIdle == RoundRobinIdle /\ ProgressiveIdle /\ RemovalIdle

(***************************************************************************)
(* duped-cli/src/main.rs: same_content, read by read                       *)
(***************************************************************************)
\* Read::read into the empty buffer of a BufReader: any positive number of
\* the bytes left, at most the capacity; 0 at the end of the file
ReadSizes(bytes, at) ==
    IF at = Len(bytes) THEN {0} ELSE 1..Min(BufCap, Len(bytes) - at)

\* reader.fill_buf() after a read of n bytes: the slice of the buffer
fill_buf(bytes, at, n) == SubSeq(bytes, at + 1, at + n)

\* both files are open and nothing has been read
CompareInit ==
    /\ MainIdle
    /\ BudgetIdle
    /\ RootsIdle
    /\ HasherIdle
    /\ HasherSetIdle
    /\ ArgsIdle
    /\ FilterIdle
    /\ DbIdle
    /\ RetryIdle
    /\ bytes1 \in FileContents
    /\ bytes2 \in FileContents
    /\ pos1 = 0
    /\ pos2 = 0
    /\ verdict = "running"

\* one iteration of the loop of same_content
CompareRound ==
    /\ verdict = "running"
    /\ \E n1 \in ReadSizes(bytes1, pos1), n2 \in ReadSizes(bytes2, pos2) :
          LET data1 == fill_buf(bytes1, pos1, n1)
              data2 == fill_buf(bytes2, pos2, n2)
          IN IF data1 # data2
             THEN verdict' = "Ok(false)" /\ UNCHANGED <<pos1, pos2>>
             ELSE IF data1 = <<>>
                  THEN verdict' = "Ok(true)" /\ UNCHANGED <<pos1, pos2>>
                  ELSE /\ pos1' = pos1 + Len(data1)
                       /\ pos2' = pos2 + Len(data2)
                       /\ UNCHANGED verdict
    /\ UNCHANGED <<outsideCompare, bytes1, bytes2>>

\* fill_buf()? fails
CompareIoError ==
    /\ verdict = "running"
    /\ verdict' = "Err"
    /\ UNCHANGED <<outsideCompare, bytes1, bytes2,
                   pos1, pos2>>

CompareNext == CompareRound \/ CompareIoError

SpecCompare == CompareInit /\ [][CompareNext]_vars

(***************************************************************************)
(* src/db.rs: HashDb                                                       *)
(***************************************************************************)
\* the entries a caller may insert
Entries == [path : Paths, mtime : 1..2, hash : {"h1", "h2"}, size : 1..2]

\* Option::None of select
NoEntry == [path |-> 0, mtime |-> 0, hash |-> "", size |-> 0]

\* the rows of the table whose primary key is `path`
RowsOf(table, path) == {r \in table : r.path = path}

\* INSERT .. ON CONFLICT (path) DO NOTHING
insert_or_ignore(table, entry) ==
    IF RowsOf(table, entry.path) # {} THEN table ELSE table \cup {entry}

\* HashDb::insert: INSERT INTO path .. VALUES (?1, ?2, ?3, ?4)
\* ON CONFLICT (path) DO UPDATE SET mtime, hash, size = excluded.*
HashDb_insert(table, entry) ==
    IF RowsOf(table, entry.path) # {}
    THEN {IF r.path = entry.path
          THEN [r EXCEPT !.mtime = entry.mtime, !.hash = entry.hash,
                         !.size = entry.size]
          ELSE r : r \in table}
    ELSE table \cup {entry}

\* the number of rows the insert changed: the row inserted or those updated
insert_changes(table, entry) ==
    IF RowsOf(table, entry.path) # {}
    THEN Cardinality(RowsOf(table, entry.path)) ELSE 1

\* DELETE FROM path
delete_all(table, path) == {}

\* HashDb::remove: DELETE FROM path WHERE path.path = ?1
HashDb_remove(table, path) == table \ RowsOf(table, path)

\* HashDb::select: the first row of SELECT .. WHERE path = ?1, if any
HashDb_select(table, path) ==
    IF RowsOf(table, path) = {} THEN NoEntry
    ELSE CHOOSE r \in RowsOf(table, path) : TRUE

\* a call and what it returned: the number of rows changed, the row selected
Call(op, path, entry, changes, row) ==
    [op |-> op, path |-> path, entry |-> entry, changes |-> changes, row |-> row]

\* HashDb::try_new on a new file: CREATE TABLE IF NOT EXISTS path
DbInit ==
    /\ MainIdle
    /\ BudgetIdle
    /\ RootsIdle
    /\ HasherIdle
    /\ HasherSetIdle
    /\ ArgsIdle
    /\ FilterIdle
    /\ CompareIdle
    /\ RetryIdle
    /\ conn = {}
    /\ calls = <<>>

DbInsert(entry) ==
    /\ Len(calls) < MaxOps
    /\ conn' = HashDb_insert(conn, entry)
    /\ calls' = Append(calls, Call("insert", entry.path, entry,
                                   insert_changes(conn, entry), NoEntry))
    /\ UNCHANGED <<outsideDb>>

DbRemove(path) ==
    /\ Len(calls) < MaxOps
    /\ conn' = HashDb_remove(conn, path)
    /\ calls' = Append(calls, Call("remove", path, NoEntry,
                                   Cardinality(conn) - Cardinality(conn'), NoEntry))
    /\ UNCHANGED <<outsideDb>>

DbSelect(path) ==
    /\ Len(calls) < MaxOps
    /\ calls' = Append(calls, Call("select", path, NoEntry, 0,
                                   HashDb_select(conn, path)))
    /\ UNCHANGED <<outsideDb, conn>>

\* a statement that fails with a sqlite error changes no row
DbError(path) ==
    /\ Len(calls) < MaxOps
    /\ calls' = Append(calls, Call("Err", path, NoEntry, 0, NoEntry))
    /\ UNCHANGED <<outsideDb, conn>>

DbNext ==
    \/ \E entry \in Entries : DbInsert(entry)
    \/ \E path \in Paths : DbRemove(path) \/ DbSelect(path) \/ DbError(path)

SpecDb == DbInit /\ [][DbNext]_vars

(***************************************************************************)
(* src/db.rs: retry_on_busy                                                *)
(***************************************************************************)
\* Error::SqliteFailure(ffi::Error { code, extended_code }, _)
SqliteFailure(code, extended_code) ==
    [kind |-> "Err", code |-> code, extended_code |-> extended_code]

\* the errors a statement may fail with: the primary code SQLITE_BUSY with
\* its extended codes SQLITE_BUSY, SQLITE_BUSY_RECOVERY, SQLITE_BUSY_SNAPSHOT
\* and SQLITE_BUSY_TIMEOUT; SQLITE_LOCKED; other failures
SqliteFailures ==
    {SqliteFailure("DatabaseBusy", x) : x \in {5, 261, 517, 773}}
        \cup {SqliteFailure("DatabaseLocked", x) : x \in {6, 262}}
        \cup {SqliteFailure("ReadOnly", 8), SqliteFailure("SystemIoFailure", 10),
              SqliteFailure("DiskFull", 13), SqliteFailure("CannotOpen", 14),
              SqliteFailure("ConstraintViolation", 19)}

\* what a call of the statement may return: Ok(value) or an error
StatementOutcomes ==
    {[kind |-> "Ok", code |-> "", extended_code |-> v] : v \in 0..2}
        \cup SqliteFailures

NoOutcome == [kind |-> "none"]

\* the store reported a busy condition
IsBusy(o) == o.kind = "Err" /\ o.code = "DatabaseBusy"

\* the first match arm: Err(Error::SqliteFailure(ffi::Error {
\* code: ffi::ErrorCode::DatabaseBusy, extended_code: 5 }, _))
retried(o) == o.kind = "Err" /\ o.code = "DatabaseBusy" /\ o.extended_code = 5

RetryInit ==
    /\ MainIdle
    /\ BudgetIdle
    /\ RootsIdle
    /\ HasherIdle
    /\ HasherSetIdle
    /\ ArgsIdle
    /\ FilterIdle
    /\ CompareIdle
    /\ DbIdle
    /\ outcomes = <<>>
    /\ retval = NoOutcome

\* match f() { Err(busy) => std::thread::yield_now(), ..  and the loop
RetryYield ==
    /\ retval = NoOutcome
    /\ Len(outcomes) < MaxTries
    /\ \E o \in StatementOutcomes :
          /\ retried(o)
          /\ outcomes' = Append(outcomes, o)
    /\ UNCHANGED <<outsideRetry, retval>>

\* match f() { .. e => return e }
RetryReturn ==
    /\ retval = NoOutcome
    /\ Len(outcomes) < MaxTries
    /\ \E o \in StatementOutcomes :
          /\ ~retried(o)
          /\ outcomes' = Append(outcomes, o)
          /\ retval' = o
    /\ UNCHANGED outsideRetry

RetryNext == RetryYield \/ RetryReturn

SpecRetry == RetryInit /\ [][RetryNext]_vars

(***************************************************************************)
(* duped/src/traits.rs: ContentLimit                                       *)
(***************************************************************************)
\* Option<u64>
None == [some |-> FALSE, value |-> 0]
Some(n) == [some |-> TRUE, value |-> n]

\* the sizes and limits of the model, in bytes
Sizes == 0..MaxLen

\* a window that shuts out the sizes equal to its limits
include_file_exclusive(lower, upper, sz) ==
    IF lower.some /\ sz <= lower.value THEN "Continue(Exclude)"
    ELSE IF upper.some /\ sz >= upper.value THEN "Continue(Exclude)"
    ELSE "Continue(Include)"

\* ContentLimit::include_file_inner
include_file_inner(lower, upper, sz) ==
    IF lower.some /\ sz < lower.value THEN "Continue(Exclude)"
    ELSE IF upper.some /\ sz > upper.value THEN "Continue(Exclude)"
    ELSE "Continue(Include)"

\* ContentLimit::no_limit()
FilterInit ==
    /\ MainIdle
    /\ BudgetIdle
    /\ RootsIdle
    /\ HasherIdle
    /\ HasherSetIdle
    /\ ArgsIdle
    /\ CompareIdle
    /\ DbIdle
    /\ RetryIdle
    /\ lower_limit = None
    /\ upper_limit = None
    /\ md_size = 0
    /\ action = "none"

\* ContentLimit::with_lower_limit, before the filter is handed to find
with_lower_limit(n) ==
    /\ action = "none"
    /\ lower_limit' = Some(n)
    /\ UNCHANGED <<outsideFilter, upper_limit, md_size, action>>

\* ContentLimit::with_upper_limit
with_upper_limit(n) ==
    /\ action = "none"
    /\ upper_limit' = Some(n)
    /\ UNCHANGED <<outsideFilter, lower_limit, md_size, action>>

\* DeduperFileFilter::handle_file for ContentLimit, on a file of sz bytes
handle_file(sz) ==
    /\ md_size' = sz
    /\ action' = include_file_inner(lower_limit, upper_limit, sz)
    /\ UNCHANGED <<outsideFilter, lower_limit, upper_limit>>

FilterNext ==
    \/ \E n \in Sizes : with_lower_limit(n) \/ with_upper_limit(n)
    \/ \E sz \in Sizes : handle_file(sz)

SpecFilter == FilterInit /\ [][FilterNext]_vars

(***************************************************************************)
(* duped-cli/src/main.rs: parse_args, the loop over `remaining`            *)
(***************************************************************************)
RemovalFlags == {"--remove", "-r", "--remove-with-same-filename", "--remove-paranoid"}
PathArgs == {"a", "b"}

\* the command lines of the model
RECURSIVE ArgLists(_)
ArgLists(n) ==
    IF n = 0 THEN {<<>>}
    ELSE LET shorter == ArgLists(n - 1) IN
         shorter \cup {Append(l, t) : l \in shorter, t \in RemovalFlags \cup PathArgs}

\* an option parser that knows the long options only
from_option_long_only(opt) ==
    CASE opt = "--remove" -> "Interactive"
      [] opt = "--remove-with-same-filename" -> "SameFilename"
      [] opt = "--remove-paranoid" -> "Paranoid"
      [] OTHER -> "None"

\* RemovalKind::from_option
from_option(opt) ==
    CASE opt \in {"--remove", "-r"} -> "Interactive"
      [] opt = "--remove-with-same-filename" -> "SameFilename"
      [] opt = "--remove-paranoid" -> "Paranoid"
      [] OTHER -> "None"

\* let remaining = pargs.finish(); let mut remove = None; let mut roots = vec![]
ArgsInit ==
    /\ MainIdle
    /\ BudgetIdle
    /\ RootsIdle
    /\ HasherIdle
    /\ HasherSetIdle
    /\ CompareIdle
    /\ DbIdle
    /\ RetryIdle
    /\ FilterIdle
    /\ argv \in ArgLists(MaxArgs)
    /\ argi = 1
    /\ remove = "None"
    /\ roots = <<>>
    /\ parsed = "running"

\* the loop body for an argument that is a removal option
ParseFlag ==
    /\ parsed = "running"
    /\ argi <= Len(argv)
    /\ from_option(argv[argi]) # "None"
    /\ LET flag == from_option(argv[argi]) IN
       IF roots # <<>>
       THEN parsed' = "Err(after path)" /\ UNCHANGED <<remove, argi>>
       ELSE /\ remove' = flag
            /\ IF remove = flag
               THEN parsed' = "Err(multiple times)" /\ UNCHANGED argi
               ELSE IF remove # "None"
                    THEN parsed' = "Err(conflicts)" /\ UNCHANGED argi
                    ELSE argi' = argi + 1 /\ UNCHANGED parsed
    /\ UNCHANGED <<outsideArgs, argv, roots>>

\* roots.push(arg.into())
ParsePath ==
    /\ parsed = "running"
    /\ argi <= Len(argv)
    /\ from_option(argv[argi]) = "None"
    /\ roots' = Append(roots, argv[argi])
    /\ argi' = argi + 1
    /\ UNCHANGED <<outsideArgs, argv, remove, parsed>>

\* after the loop: if roots.is_empty() { Err(..) } else { Ok(Some(Args { .. })) }
ParseEnd ==
    /\ parsed = "running"
    /\ argi > Len(argv)
    /\ parsed' = IF roots = <<>> THEN "Err(missing path)" ELSE "Ok"
    /\ UNCHANGED <<outsideArgs, argv, argi, remove, roots>>

ArgsNext == ParseFlag \/ ParsePath \/ ParseEnd

SpecArgs == ArgsInit /\ [][ArgsNext]_vars

(***************************************************************************)
(* hasher.rs: a HasherSet on its own.  Hashers of files of MaxLen bytes,   *)
(* advanced once, are inserted one by one; then the set is split.          *)
(***************************************************************************)
HasherNames == 1..NumHashers

\* the hashers of file p after one update
HashersOf(p) ==
    {update(new(FilePath(p, c)), c) : c \in {f \in FileContents : Len(f) = MaxLen}}

\* HasherSet::default()
SetInit ==
    /\ MainIdle
    /\ BudgetIdle
    /\ RootsIdle
    /\ HasherIdle
    /\ CompareIdle
    /\ DbIdle
    /\ RetryIdle
    /\ FilterIdle
    /\ ArgsIdle
    /\ hset = EmptySet
    /\ inserted = <<>>
    /\ split = <<>>

\* set.insert(hasher): a hasher is moved into the set, so it is in it once
SetInsert(h) ==
    /\ split = <<>>
    /\ \A n \in 1..Len(inserted) : inserted[n].file_path.path # h.file_path.path
    /\ hset' = insert(hset, h)
    /\ inserted' = Append(inserted, h)
    /\ UNCHANGED <<outsideHasherSet, split>>

\* set.filter_unfinished_duplicates(): consumes the set
SetFilter ==
    /\ split = <<>>
    /\ split' = filter_unfinished_duplicates(hset)
    /\ hset' = EmptySet
    /\ UNCHANGED <<outsideHasherSet, inserted>>

SetNext ==
    \/ \E p \in HasherNames : \E h \in HashersOf(p) : SetInsert(h)
    \/ SetFilter

SpecSet == SetInit /\ [][SetNext]_vars

(***************************************************************************)
(* hasher.rs: a ProgressiveHasher on its own.  FilePath::try_new read the  *)
(* metadata once; the file may be truncated by another process later.      *)
(***************************************************************************)
\* ProgressiveHasher::new(FilePath::try_new(path)?)
HasherInit ==
    /\ MainIdle
    /\ BudgetIdle
    /\ RootsIdle
    /\ CompareIdle
    /\ DbIdle
    /\ RetryIdle
    /\ FilterIdle
    /\ ArgsIdle
    /\ HasherSetIdle
    /\ ondisk \in FileContents
    /\ ph = new(FilePath(1, ondisk))

\* update() returned Ok(())
HasherUpdate ==
    /\ ph' = update(ph, ondisk)
    /\ UNCHANGED <<outsideHasher, ondisk>>

\* update() returned Err from File::open, seek or update_reader
HasherUpdateError ==
    /\ UNCHANGED vars

\* another process truncates the file
Truncate ==
    /\ \E n \in 0..(Len(ondisk) - 1) : ondisk' = SubSeq(ondisk, 1, n)
    /\ UNCHANGED <<outsideHasher, ph>>

HasherNext == HasherUpdate \/ HasherUpdateError \/ Truncate

SpecHasher == HasherInit /\ [][HasherNext]_vars

(***************************************************************************)
(* lib.rs: Deduper::find over its roots (lib.rs 96-156), one walk entry    *)
(* after the other.  Directory k holds file k and directory k + 1; each    *)
(* entry is hashed and added to the result as lib.rs collect does.         *)
(***************************************************************************)
Dirs == 1..NumFiles

\* WalkDir::new(root): the files under the directory, in walk order
WalkDir(root) == [n \in 1..(NumFiles - root + 1) |-> root + n - 1]

\* the sequences of up to n roots
RECURSIVE RootLists(_)
RootLists(n) ==
    IF n = 0 THEN {<<>>}
    ELSE LET shorter == RootLists(n - 1) IN
         shorter \cup {Append(l, d) : l \in shorter, d \in Dirs}

\* Deduper::builder(roots).build().find(..)
RootsInit ==
    /\ MainIdle
    /\ BudgetIdle
    /\ CompareIdle
    /\ DbIdle
    /\ RetryIdle
    /\ FilterIdle
    /\ ArgsIdle
    /\ HasherSetIdle
    /\ HasherIdle
    /\ tree \in [Paths -> Contents]
    /\ root_list \in RootLists(MaxRoots) \ {<<>>}
    /\ root_at = 1
    /\ entry_at = 1
    /\ found = EmptyResult

\* the entry after this one: of the same root, or the first of the next root
RootsNextEntry ==
    IF entry_at < Len(WalkDir(root_list[root_at]))
    THEN entry_at' = entry_at + 1 /\ UNCHANGED root_at
    ELSE entry_at' = 1 /\ root_at' = root_at + 1

\* the entry is a file that is opened, hashed and added to the result
RootsEntryHashed ==
    /\ root_at <= Len(root_list)
    /\ LET path == WalkDir(root_list[root_at])[entry_at]
           res == hash_file(tree[path]) IN
       found' = add_entry(found, res.hash, FileEntry(path, res.size))
    /\ RootsNextEntry
    /\ UNCHANGED <<outsideRoots, tree, root_list>>

\* the entry is skipped: a walk, metadata, open or read error, or the filter
RootsEntrySkipped ==
    /\ root_at <= Len(root_list)
    /\ RootsNextEntry
    /\ UNCHANGED <<outsideRoots, tree, root_list, found>>

RootsNext == RootsEntryHashed \/ RootsEntrySkipped

SpecRoots == RootsInit /\ [][RootsNext]_vars

(***************************************************************************)
(* lib.rs: the file descriptor budget of find, for every limit and number  *)
(* of workers.  usize is modelled with UsizeBits bits.                     *)
(***************************************************************************)
UsizeModulus == 2 ^ UsizeBits

\* a - b on usize in a build without overflow checks
wrapping_sub(a, b) == (a - b + UsizeModulus) % UsizeModulus

BudgetInit ==
    /\ MainIdle
    /\ CompareIdle
    /\ DbIdle
    /\ RetryIdle
    /\ FilterIdle
    /\ ArgsIdle
    /\ HasherSetIdle
    /\ HasherIdle
    /\ RootsIdle
    /\ rlimit_nofile \in 0..MaxRLimit
    /\ num_workers \in 1..MaxWorkers
    /\ fds = 0
    /\ result_cap = 0
    /\ queue_cap = 0
    /\ bpc = "start"

\* let fds = getrlimit(NOFILE)?.0 as usize - 4 * num_threads: the difference,
\* wrapped around when the limit is the smaller and overflow is not checked
BudgetFds ==
    /\ bpc = "start"
    /\ fds' = wrapping_sub(rlimit_nofile, 4 * num_workers)
    /\ bpc' = "budget"
    /\ UNCHANGED <<outsideBudget, rlimit_nofile, num_workers, result_cap,
                   queue_cap>>

\* the same subtraction in a build with overflow checks: `attempt to
\* subtract with overflow`
BudgetFdsPanics ==
    /\ bpc = "start"
    /\ rlimit_nofile < 4 * num_workers
    /\ bpc' = "panicked"
    /\ UNCHANGED <<outsideBudget, rlimit_nofile, num_workers, fds, result_cap,
                   queue_cap>>

\* mpsc::sync_channel(fds) and, for each worker,
\* mpsc::sync_channel(fds / num_threads)
BudgetChannels ==
    /\ bpc = "budget"
    /\ result_cap' = fds
    /\ queue_cap' = fds \div num_workers
    /\ bpc' = "channels"
    /\ UNCHANGED <<outsideBudget, rlimit_nofile, num_workers, fds>>

BudgetNext == BudgetFds \/ BudgetFdsPanics \/ BudgetChannels

SpecBudget == BudgetInit /\ [][BudgetNext]_vars

(***************************************************************************)
(* State functions the properties are stated with.                         *)
(***************************************************************************)
\* the paths of a hash group
GroupPaths(entries) == {e.path : e \in Range(entries.files)}

\* the paths of the result, over all groups
ResultPaths == UNION {GroupPaths(hashes[h]) : h \in DOMAIN hashes}

\* how often path p occurs in the result
Occurrences(p) ==
    LET RECURSIVE Sum(_)
        Sum(H) == IF H = {} THEN 0
                  ELSE LET h == CHOOSE x \in H : TRUE IN
                       Cardinality({i \in 1..Len(hashes[h].files) :
                                       hashes[h].files[i].path = p})
                       + Sum(H \ {h})
    IN Sum(DOMAIN hashes)

\* files that passed the filter and were answered in this discovery, by
\* hashing without error or by the cache
Answered == {p \in Paths : fate[p] \in {"hashed", "cached"}}

\* the answered files with the content of p
ContentClass(p) == {q \in Answered : fs[q].content = fs[p].content}

\* no file was rewritten since the current discovery started
Unchanged == run = "second" \/ modified = {}

\* the files open in find, in a channel or in a worker
Queued(w) == Len(inq[w])
Working(w) == IF wtask[w] # NoTask THEN 1 ELSE 0
Held == IF held # NoTask THEN 1 ELSE 0

RECURSIVE SumOver(_, _)
SumOver(f, S) ==
    IF S = {} THEN 0
    ELSE LET x == CHOOSE y \in S : TRUE IN f[x] + SumOver(f, S \ {x})

\* files opened by the walker and not yet handed over, queued in the workers'
\* input channels, and held by a worker
InFlight == Held + SumOver([w \in Workers |-> Queued(w) + Working(w)], Workers)

\* path p is past the filter: held, queued, with a worker, in the result
\* channel or in the result
Dispatched(p) ==
    \/ held.path = p
    \/ \E w \in Workers :
          \/ \E i \in 1..Len(inq[w]) : inq[w][i].path = p
          \/ wtask[w].path = p
          \/ wres[w].path = p
    \/ \E i \in 1..Len(resq) : resq[i].path = p
    \/ p \in ResultPaths

(***************************************************************************)
(* C1.  When a discovery returns, the duplicate groups are exactly the     *)
(* classes of two or more answered files with identical bytes, and no      *)
(* group lists a path twice.  The files are those hashed without error     *)
(* and those answered by the cache that were not rewritten since they      *)
(* were cached; a discovery that answered a rewritten file from the cache  *)
(* is the case of C6.                                                      *)
(***************************************************************************)
C1_GroupsAreContentClasses ==
    (pc = "returned" /\ Unchanged /\ \A p \in modified : fate[p] # "cached") =>
        /\ {GroupPaths(hashes[h]) : h \in duplicates(hashes)}
              = {ContentClass(p) : p \in {q \in Answered : Cardinality(ContentClass(q)) >= 2}}
        /\ \A h \in DOMAIN hashes :
              Len(hashes[h].files) = Cardinality(GroupPaths(hashes[h]))

\* a discovery returned all files in one duplicate group
C1_Witness ==
    /\ pc = "returned"
    /\ Unchanged
    /\ \A p \in Paths : fate[p] = "hashed"
    /\ \E h \in duplicates(hashes) : GroupPaths(hashes[h]) = Paths

(***************************************************************************)
(* C2.  All entries of one hash group report the same size: the assertion  *)
(* of FileEntries::push never fails, whether the entry is finalized        *)
(* because its hasher is done or as the single hasher under its digest at  *)
(* the end of a round.                                                     *)
(***************************************************************************)
C2_GroupsShareOneSize ==
    /\ collector # "panicked"
    /\ \A h \in DOMAIN groups :
          \A e \in Range(groups[h].files) : e.size = groups[h].file_size

(***************************************************************************)
(* C3.  A file the filter excluded is never dispatched: it is not held for *)
(* dispatch, not in a channel, not with a worker and not in the result.    *)
(***************************************************************************)
C3_ExcludedNeverDispatched ==
    \A p \in Paths : fate[p] = "excluded" => ~Dispatched(p)

\* a discovery returned a result although the filter excluded a file
C3_Witness ==
    /\ pc = "returned"
    /\ \E p \in Paths : fate[p] = "excluded"
    /\ ResultPaths # {}

(***************************************************************************)
(* C4.  The returned result is partial if and only if a stop verdict was   *)
(* given during the walk; a walk that visits every entry is not partial.   *)
(***************************************************************************)
C4_PartialIffStopVerdict ==
    pc = "returned" =>
        /\ is_partial <=> (\E p \in Paths : fate[p] = "stop")
        /\ (\A p \in Paths : fate[p] \notin {"unseen", "stop"}) => ~is_partial

\* a stopped discovery returned, with a file in its result
C4_Witness ==
    /\ pc = "returned"
    /\ is_partial
    /\ ResultPaths # {}

(***************************************************************************)
(* C5.  In the second discovery no file that the first discovery answered  *)
(* with the cache on, and that was not rewritten since, is hashed: if the  *)
(* first discovery answered every file, the second reads no file content.  *)
(***************************************************************************)
C5_SecondDiscoveryHashesNothing ==
    run = "second" =>
        \A p \in prevOk \ modified : fate[p] \notin {"hashed", "readerror"}

\* the second discovery returned, every file answered by the cache
C5_Witness ==
    /\ run = "second"
    /\ pc = "returned"
    /\ prevOk = Paths
    /\ modified = {}
    /\ \A p \in Paths : fate[p] = "cached"
    /\ ResultPaths = Paths

(***************************************************************************)
(* C6.  A file cached by the first discovery and rewritten since (content  *)
(* and modification time) is reported by the second discovery under the    *)
(* hash of its new content, and once that discovery has returned its cache *)
(* row holds the new mtime, size and hash.                                 *)
(***************************************************************************)
C6_RewrittenFileIsRehashed ==
    (run = "second" /\ pc = "returned") =>
        \A p \in (modified \cap prevOk) \cap ResultPaths :
            /\ \A h \in DOMAIN hashes :
                  p \in GroupPaths(hashes[h]) => h = Hash(fs[p].content)
            /\ db[p] = Entry(fs[p].mtime, hash_file(fs[p].content))

(***************************************************************************)
(* C7.  When a removal workflow run with a cache has finished (returned,   *)
(* also with an input error), no path it removed from disk has a row in    *)
(* the cache.                                                              *)
(***************************************************************************)
C7_RemovedPathsHaveNoRow ==
    (cache /\ rpc \in {"done", "failed"}) => removed \cap rows = {}

\* a workflow with a cache returned after removing files of two groups
C7_Witness ==
    /\ cache
    /\ rpc = "done"
    /\ Len(dups) = 2
    /\ \E p \in removed : p \in Range(dups[1])
    /\ \E p \in removed : p \in Range(dups[2])

(***************************************************************************)
(* C8.  A hasher has always been fed the first len_hashed bytes of its     *)
(* file, chunk after chunk without overlap or gap; once it is done         *)
(* (len_hashed = size) current_hash returns the hash of the whole content. *)
(***************************************************************************)
C8_DoneDigestIsContentHash ==
    \A p \in DOMAIN hashers :
        /\ hashers[p].hasher = SubSeq(files[p], 1, hashers[p].len_hashed)
        /\ current_hash(hashers[p]).done =>
              current_hash(hashers[p]).hash = Hash(files[p])

\* a file longer than one chunk was hashed to its end and finalized
C8_Witness ==
    \E p \in DOMAIN hashers :
        /\ Len(files[p]) > MIN_TO_READ
        /\ current_hash(hashers[p]).done
        /\ stage[p] = "final"

(***************************************************************************)
(* C9, as stated.  The files in flight (opened by the walker and not yet   *)
(* handed over, queued in the workers' input channels, held by a worker)   *)
(* never exceed the budget rlimit_nofile - 4 * num_workers.                *)
(***************************************************************************)
C9_InFlightWithinBudget == InFlight <= Fds

(***************************************************************************)
(* C9, amended.  Each input channel holds at most floor(budget /           *)
(* num_workers) files, each worker holds at most one more, and the walker  *)
(* one: at most 1 + num_workers * (floor(budget / num_workers) + 1) files  *)
(* are in flight.                                                          *)
(***************************************************************************)
C9_InFlightBound ==
    /\ \A w \in Workers : Queued(w) + Working(w) <= ThreadCap + 1
    /\ InFlight <= 1 + NumThreads * (ThreadCap + 1)

\* more files are in flight than the budget
C9_Witness == InFlight > Fds

(***************************************************************************)
(* C10.  Per-file errors are not fatal: find panics only after a cache     *)
(* error or the death of the collector, and a result that is returned      *)
(* holds every file that was hashed or answered by the cache, once, and no *)
(* file that had a walk, metadata, open or read error.                     *)
(***************************************************************************)
C10_PerFileErrorsNotFatal ==
    /\ pc = "panicked" => (cpc = "panicked" \/ \E w \in Workers : wpc[w] = "failed")
    /\ pc = "returned" =>
          /\ ResultPaths = Answered
          /\ \A p \in ResultPaths : Occurrences(p) = 1
          /\ \A p \in Paths : fate[p] \in {"error", "readerror"} => p \notin ResultPaths

\* a discovery returned a file although another had a read error
C10_Witness ==
    /\ pc = "returned"
    /\ \E p \in Paths : fate[p] = "readerror"
    /\ ResultPaths # {}

(***************************************************************************)
(* C11.  A cache error in a worker (in try_new, select or insert) aborts   *)
(* that worker only: find does not panic because of it.                    *)
(***************************************************************************)
C11_CacheErrorAbortsWorkerOnly ==
    (\E w \in Workers : wpc[w] = "failed") => pc # "panicked"

(***************************************************************************)
(* C12.  With every thread scheduled fairly, a discovery eventually        *)
(* returns, unless the hook of the caller panics in the collector.         *)
(***************************************************************************)
C12_DiscoveryEventuallyReturns == <>(pc = "returned" \/ cpc = "panicked")

(***************************************************************************)
(* C13.  The dispatch loop for a file terminates, whichever workers have   *)
(* exited and disconnected their input channels.                           *)
(***************************************************************************)
C13_DispatchLoopTerminates == (pc = "dispatch") ~> (pc # "dispatch")

(***************************************************************************)
(* C14.  After the stop verdict find opens and dispatches no further file: *)
(* the entry of the verdict and the entries after it are never dispatched. *)
(* The files dispatched before are not abandoned: when find returns, none  *)
(* of them is still in a channel or with a worker, the result holds every  *)
(* one that was answered Ok, and it is marked partial.                     *)
(***************************************************************************)
C14_StopEndsDispatchOnly ==
    stopped =>
        /\ pc \notin {"walk", "dispatch"}
        /\ held = NoTask
        /\ \A p \in Paths :
              p >= pos => (fate[p] \in {"unseen", "stop"} /\ ~Dispatched(p))
        /\ pc = "returned" =>
              /\ is_partial
              /\ \A p \in Paths : fate[p] \notin {"opened", "sent"}
              /\ \A w \in Workers : inq[w] = <<>> /\ wtask[w] = NoTask
              /\ ResultPaths = Answered

\* a discovery stopped at its last entry returned the file dispatched before
C14_Witness ==
    /\ stopped
    /\ pc = "returned"
    /\ is_partial
    /\ fate[NumFiles] = "stop"
    /\ \E p \in Paths : fate[p] = "hashed" /\ p \in ResultPaths

\* a step that calls remove_file(chosen) and nothing else: the path is gone
\* from the disk and, with a cache, from the cache, unless the file system
\* refuses the removal; every other path keeps its file and its row
Removes(chosen) ==
    /\ tried' = tried \cup {chosen}
    /\ removed' \subseteq removed \cup {chosen}
    /\ \A p \in RemovePaths \ {chosen} : disk'[p] = disk[p] /\ (p \in rows' <=> p \in rows)
    /\ IF removed' = removed
       THEN disk' = disk /\ rows' = rows
       ELSE /\ disk[chosen].exists /\ ~disk'[chosen].exists
            /\ rpc' # "panicked" => chosen \notin rows'

\* a step that calls remove_file for no path
RemovesNothing == tried' = tried /\ removed' = removed /\ disk' = disk /\ rows' = rows

\* C15: in interactive removal every pair that is prompted has
\* i < j < entries.len(); answer 1 leads to the pair (j, j + 1) and removes
\* no path but entries[i], answer 2 leads to (i, j + 1) and removes no path
\* but entries[j], answer s leads to (j + 1, j + 2) and removes nothing, and
\* no other step of the workflow touches a file or a cache row.
C15_AnswersRemoveOnlyTheChosen ==
    [][(kind = "interactive" /\ rpc = "pair") =>
          /\ 0 <= idx_i /\ idx_i < idx_j
          /\ \/ /\ PairLeft
                /\ idx_i' = idx_j /\ idx_j' = idx_j + 1
                /\ Removes(EntryAt(idx_i))
             \/ /\ PairLeft
                /\ idx_i' = idx_i /\ idx_j' = idx_j + 1
                /\ Removes(EntryAt(idx_j))
             \/ /\ PairLeft
                /\ idx_i' = idx_j + 1 /\ idx_j' = idx_j + 2
                /\ RemovesNothing
             \/ /\ idx_i' = idx_i /\ idx_j' = idx_j
                /\ RemovesNothing]_vars

\* answer 1 at (0, 1) and answer 2 at (1, 2) of a group of four: the first
\* and the third path are gone, the pair (1, 3) is prompted
C15_Witness ==
    /\ kind = "interactive" /\ rpc = "pair" /\ Len(sorted) = 4
    /\ idx_i = 1 /\ idx_j = 3
    /\ removed = {sorted[1], sorted[3]} /\ tried = removed
    /\ disk[sorted[2]].exists /\ disk[sorted[4]].exists

\* the first entry of the sorted duplicate group g and the entries after it
FirstEntry(g) == sort_by(dups[g])[1]
LaterEntries(g) == {sort_by(dups[g])[n] : n \in 2..Len(dups[g])}

\* the paths left alone: still on disk and, with a cache, still in the cache
LeftAlone(p) == disk[p].exists /\ (cache => p \in rows)

\* the entries after the first that carry the first entry's file name
SameNameAsFirst ==
    {p \in RemovePaths : \E g \in 1..Len(dups) :
        p \in LaterEntries(g) /\ disk[p].name = disk[FirstEntry(g)].name}

\* C16: same-filename removal calls remove_file for exactly the entries
\* after the first of a sorted duplicate group whose file name is the first
\* entry's; every first entry and every other path that is no such entry
\* (an entry of another name, a file of no duplicate group) is still on disk
\* and in the cache.
C16_SameFilenameRemovesExactlyNamesakes ==
    kind = "same_filename" =>
        /\ tried \subseteq SameNameAsFirst
        /\ removed \subseteq tried
        /\ \A p \in tried \ removed : disk[p].exists
        /\ \A p \in RemovePaths \ tried : LeftAlone(p)
        /\ \A g \in 1..Len(dups) : LeftAlone(FirstEntry(g))
        /\ rpc = "done" => tried = SameNameAsFirst

\* C17: paranoid removal calls remove_file for the entry after the first
\* that it has just compared if and only if same_content returned Ok(true),
\* which it does only for an entry whose bytes are those of the first
\* entry; after Ok(false) or a failed comparison the step removes nothing,
\* and no step removes any other path.
C17_ParanoidRemovesIffReportedEqual ==
    [][kind = "paranoid" =>
          IF rpc = "pair" /\ idx_j < Len(sorted)
          THEN /\ idx_j' = idx_j + 1
               /\ answer' \in {"Ok(true)", "Ok(false)", "Err"}
               /\ IF answer' = "Ok(true)"
                  THEN /\ Removes(EntryAt(idx_j))
                       /\ disk[EntryAt(0)].exists /\ disk[EntryAt(idx_j)].exists
                       /\ disk[EntryAt(idx_j)].content = disk[EntryAt(0)].content
                  ELSE RemovesNothing
          ELSE RemovesNothing]_vars

\* a finished run that removed an entry equal to the first, kept an entry
\* of other content (a hash collision) and one whose comparison failed
C17_Witness ==
    /\ kind = "paranoid" /\ rpc = "done" /\ answer = "Err"
    /\ \E q \in removed : disk[q].content = disk[FirstEntry(1)].content
    /\ \E q \in LaterEntries(1) :
          disk[q].content # disk[FirstEntry(1)].content /\ LeftAlone(q)
    /\ disk[FirstEntry(1)].exists

\* C18: a comparison that returns Ok reports true if and only if the two
\* files hold the same bytes, whatever number of bytes each read returned.
C18_TrueIffIdentical ==
    verdict \in {"Ok(true)", "Ok(false)"} =>
        (verdict = "Ok(true)" <=> bytes1 = bytes2)

\* the entry of the most recent insert for `path` among the calls of `log`,
\* NoEntry when a remove of the path followed it or no insert was made
RECURSIVE LatestInsert(_, _)
LatestInsert(log, path) ==
    IF log = <<>> THEN NoEntry
    ELSE LET c == log[Len(log)] IN
         IF c.path = path /\ c.op = "insert" THEN c.entry
         ELSE IF c.path = path /\ c.op = "remove" THEN NoEntry
         ELSE LatestInsert(SubSeq(log, 1, Len(log) - 1), path)

\* C19: after any sequence of calls the table holds at most one row per
\* path and select(path) is the entry of the most recent insert for the
\* path that no remove has followed (none when there is no such insert);
\* every insert, also one for a path that has a row, reported one row.
C19_SelectReturnsLatestInsert ==
    /\ \A path \in Paths :
          /\ Cardinality(RowsOf(conn, path)) <= 1
          /\ HashDb_select(conn, path) = LatestInsert(calls, path)
    /\ \A n \in 1..Len(calls) :
          /\ calls[n].op = "insert" => calls[n].changes = 1
          /\ calls[n].op = "select" =>
                calls[n].row = LatestInsert(SubSeq(calls, 1, n - 1), calls[n].path)

\* a path is inserted, inserted again with another entry, and selected
C19_Witness ==
    /\ Len(calls) >= 3
    /\ calls[1].op = "insert" /\ calls[2].op = "insert" /\ calls[3].op = "select"
    /\ calls[2].path = calls[1].path /\ calls[3].path = calls[1].path
    /\ calls[2].entry # calls[1].entry
    /\ calls[3].row = calls[2].entry

\* C20: remove(path) reports 1 when the path had a row and 0 when it had
\* none, select(path) returns none after it, and the row of every other
\* path is in the table as it was.
C20_RemoveDeletesOnlyThePath ==
    [][(Len(calls') = Len(calls) + 1 /\ calls'[Len(calls')].op = "remove") =>
          LET path == calls'[Len(calls')].path IN
          /\ calls'[Len(calls')].changes =
                IF HashDb_select(conn, path) # NoEntry THEN 1 ELSE 0
          /\ HashDb_select(conn', path) = NoEntry
          /\ \A other \in Paths \ {path} :
                HashDb_select(conn', other) = HashDb_select(conn, other)
          /\ conn' \subseteq conn]_vars

\* a remove of a path with a row, reporting 1, with the row of the other
\* path still in the table
C20_Witness ==
    /\ Len(calls) >= 3
    /\ calls[1].op = "insert" /\ calls[2].op = "insert" /\ calls[3].op = "remove"
    /\ calls[3].changes = 1
    /\ calls[3].path = calls[2].path /\ calls[1].path # calls[2].path
    /\ (Len(calls) = 3 => conn = {calls[1].entry})

\* the outcomes of the statement that are no busy condition, in order
NonBusy(log) == SelectSeq(log, LAMBDA o : ~IsBusy(o))

\* C21: retry_on_busy returns only when the statement succeeded or failed
\* with an error that is no busy condition: what it returns is never a busy
\* error, and it is the first outcome of the statement that is not busy.
C21_NeverReturnsBusy ==
    retval # NoOutcome =>
        /\ ~IsBusy(retval)
        /\ NonBusy(outcomes) # <<>>
        /\ retval = NonBusy(outcomes)[1]

\* C22: the size window answers Include for a file of size s exactly when
\* s is not below the lower limit, if there is one, and not above the upper
\* limit, if there is one; it answers Exclude otherwise and never stops the
\* discovery (ControlFlow::Break).
C22_SizeWindowInclusive ==
    action # "none" =>
        /\ action \in {"Continue(Include)", "Continue(Exclude)"}
        /\ action = "Continue(Include)" <=>
              /\ ~lower_limit.some \/ md_size >= lower_limit.value
              /\ ~upper_limit.some \/ md_size <= upper_limit.value

\* a file whose size is the upper limit of a window is included
C22_Witness ==
    /\ lower_limit.some /\ upper_limit.some
    /\ lower_limit.value < upper_limit.value
    /\ md_size = upper_limit.value
    /\ action = "Continue(Include)"

\* the entries of the result with the hash they are stored under, as a bag
ResultCalls ==
    LET stored == UNION {{HookCall(h, hashes[h].files[n]) :
                            n \in 1..Len(hashes[h].files)} : h \in DOMAIN hashes}
    IN [c \in stored |->
          Cardinality({n \in 1..Len(hashes[c.hash].files) :
                          hashes[c.hash].files[n] = c.entry})]

\* C23: as long as the collector runs and when the discovery has returned,
\* the calls of the entry hook are exactly the entries of the result, each
\* with the hash it is stored under and each once; no call is for a file
\* whose hashing failed, and the number of calls is the number of entries.
C23_HookOncePerEntry ==
    cpc # "panicked" =>
        /\ hooked = ResultCalls
        /\ \A c \in DOMAIN hooked :
              /\ hooked[c] = 1
              /\ fate[c.entry.path] \in {"hashed", "cached"}
        /\ \A q \in Paths : fate[q] = "readerror" =>
              \A c \in DOMAIN hooked : c.entry.path # q
        /\ SumOver(hooked, DOMAIN hooked)
              = SumOver([h \in DOMAIN hashes |-> Len(hashes[h].files)], DOMAIN hashes)

\* a returned discovery with one hook call for the file that was hashed and
\* none for the file whose read failed
C23_Witness ==
    /\ pc = "returned"
    /\ \E q \in Paths : fate[q] = "readerror"
    /\ \E c \in DOMAIN hooked : fate[c.entry.path] = "hashed" /\ hooked[c] = 1

\* the entries of the group of hash h, none when there is no such group
FilesOf(map, h) == IF h \in DOMAIN map THEN map[h].files ELSE <<>>

\* C24: duplicates() yields the hashes of exactly the groups with two or
\* more entries, and a group lists its entries in the order in which they
\* were added: every step that changes the result of a discovery puts one
\* entry behind the entries its group had and leaves the other groups.
C24_DuplicatesInInsertionOrder ==
    [][/\ duplicates(hashes') = {h \in DOMAIN hashes' : Len(hashes'[h].files) >= 2}
       /\ (hashes' # hashes /\ hashes' # EmptyResult) =>
             \E h \in DOMAIN hashes' :
                /\ Len(hashes'[h].files) = Len(FilesOf(hashes, h)) + 1
                /\ SubSeq(hashes'[h].files, 1, Len(FilesOf(hashes, h)))
                      = FilesOf(hashes, h)
                /\ \A g \in DOMAIN hashes' \ {h} :
                      g \in DOMAIN hashes /\ hashes'[g] = hashes[g]]_vars

\* a returned result whose one duplicate group lists the second walk entry
\* before the first: the order of insertion, not of the paths
C24_Witness ==
    /\ pc = "returned"
    /\ \E h \in duplicates(hashes) :
          /\ Len(hashes[h].files) = 2
          /\ hashes[h].files[1].path > hashes[h].files[2].path

\* the removal flags of a command line, the positions of its paths
IsRemovalFlag(arg) == arg \in RemovalFlags
FlagPositions == {n \in 1..Len(argv) : IsRemovalFlag(argv[n])}
PathPositions == {n \in 1..Len(argv) : ~IsRemovalFlag(argv[n])}

\* the removal kind each flag stands for
KindOf(arg) ==
    IF arg \in {"--remove", "-r"} THEN "Interactive"
    ELSE IF arg = "--remove-with-same-filename" THEN "SameFilename"
    ELSE "Paranoid"

\* C25: parsing ends with an argument error when a removal flag stands
\* after a path, when there are two removal flags, and when there is no
\* path; for every other command line it ends with Ok, the roots being the
\* paths in the order given and the removal kind that of the one flag, if
\* there is a flag.
C25_ParseFailsOrKeepsOrder ==
    parsed \notin {"idle", "running"} =>
        IF \/ \E n \in FlagPositions, m \in PathPositions : m < n
           \/ Cardinality(FlagPositions) >= 2
           \/ PathPositions = {}
        THEN parsed \in {"Err(after path)", "Err(multiple times)",
                         "Err(conflicts)", "Err(missing path)"}
        ELSE /\ parsed = "Ok"
             /\ roots = SelectSeq(argv, LAMBDA arg : ~IsRemovalFlag(arg))
             /\ roots # <<>>
             /\ IF FlagPositions = {} THEN remove = "None"
                ELSE \A n \in FlagPositions : remove = KindOf(argv[n])

\* `-r b a` is accepted: interactive removal over the roots b, a
C25_Witness ==
    /\ parsed = "Ok"
    /\ argv = <<"-r", "b", "a">>
    /\ remove = "Interactive"
    /\ roots = <<"b", "a">>

\* the mtime a row stores, read as a time, is the mtime of the task
StoredMtimeIsCurrent(row, mtime) ==
    row # NoRow /\ mtime = [sec |-> row.mtime, nsec |-> 0]

\* C26: a worker with the cache on answers a task from the stored row,
\* without reading the file, exactly when the path has a row whose stored
\* mtime equals the current mtime of the file; with no row or another
\* mtime the file is hashed (or its read fails).
C26_CachedIffSameMtime ==
    [][\A w \in Workers :
          /\ WorkerCached(w) =>
                StoredMtimeIsCurrent(db[wtask[w].path], wtask[w].mtime)
          /\ (useDb /\ (WorkerHashed(w) \/ WorkerReadError(w))) =>
                ~StoredMtimeIsCurrent(db[wtask[w].path], wtask[w].mtime)]_vars

\* the number of times hasher p is in a Vec
CountIn(vec, p) == IF p \in DOMAIN vec THEN vec[p] ELSE 0

\* the inserted hashers that have the digest of the n-th one
SharingDigest(n) ==
    {m \in 1..Len(inserted) :
        current_hash(inserted[m]).hash = current_hash(inserted[n]).hash}

\* C27: filter_unfinished_duplicates splits the inserted hashers in two:
\* each inserted hasher is once in one of the two lists and not in the
\* other, no other hasher is in a list, the first list holds the hashers
\* whose digest no other inserted hasher has, the second those whose digest
\* another one has.
C27_FilterPartitions ==
    split # <<>> =>
        /\ \A n \in 1..Len(inserted) :
              LET p == inserted[n].file_path.path IN
              /\ CountIn(split.finished, p) + CountIn(split.output, p) = 1
              /\ CountIn(split.finished, p) = 1 <=> SharingDigest(n) = {n}
              /\ CountIn(split.output, p) = 1 <=> SharingDigest(n) # {n}
        /\ DOMAIN split.finished \cup DOMAIN split.output
              = {inserted[n].file_path.path : n \in 1..Len(inserted)}

\* three hashers were inserted, two of one digest: one finished, two go on
C27_Witness ==
    /\ split # <<>>
    /\ Len(inserted) = 3
    /\ \E p \in HasherNames : DOMAIN split.finished = {p}
    /\ Cardinality(DOMAIN split.output) = 2

\* C28: the refinement loop comes to its end for every set of files, and
\* at its end no hasher is left: each one was finalized or dropped.
C28_LoopEndsWithNoHashers ==
    <>(collector = "done" /\ \A p \in Paths : stage[p] \in {"final", "dropped"})

\* len_hashed of a hasher of file p that was advanced in each of k rounds
OffsetAfter(p, k) == Min(hashers[p].file_path.len, k * MIN_TO_READ)

\* the response of file p that waits for the collector is Ok
AnsweredOk(p) ==
    \E n \in 1..Len(responses) : responses[n].path = p /\ responses[n].ok

Holders(p) == {w \in Workers : holds[w] = p}

\* the number of times the hasher of file p is in the response channel
InResponses(p) == Cardinality({n \in 1..Len(responses) : responses[n].path = p})

\* the number of times the hasher of file p is in the round's HasherSet
InSet(p) ==
    Cardinality(UNION {{<<d, n>> : n \in {k \in 1..Len(inner[d]) : inner[d][k] = p}} :
                          d \in DOMAIN inner})

C31_LenHashedIsBytesFed ==
    ph # <<>> =>
        /\ 0 <= ph.len_hashed
        /\ ph.len_hashed <= ph.file_path.len
        /\ Len(ph.hasher) = ph.len_hashed
        /\ current_hash(ph).done <=> ph.len_hashed = ph.file_path.len

\* the channels that took a task in this step
Takers == {w \in Workers : Len(inq'[w]) > Len(inq[w])}

\* C32: the worker index stays in [0, num_threads); a task enters a
\* channel only as the file the dispatcher holds, which was not sent before,
\* and it enters one channel; the dispatcher gives the file it holds away
\* only into a channel, so a file rejected as Full or Disconnected is kept
\* for the next worker; and the dispatcher yields only after num_threads
\* failed attempts in a row.
C32_EachFileToOneQueueOnce ==
    [][/\ next_worker' \in Workers
       /\ \A w \in Takers :
             /\ Takers = {w}
             /\ held # NoTask
             /\ inq'[w] = Append(inq[w], held)
             /\ fate[held.path] = "opened"
             /\ held' = NoTask
       /\ (held # NoTask /\ held' # held) => Takers # {}
       /\ (pc = "dispatch" /\ held' = held /\ attempts # 0 /\ attempts' = 0) =>
             attempts = NumThreads]_vars

\* the second file is with worker 0 after the first file was sent: one of
\* the two was rejected by a worker and taken by the next
C32_Witness ==
    /\ run = "first"
    /\ fate[1] \in {"sent", "hashed", "cached", "readerror"}
    /\ wtask[0].path = 2

\* C33: a worker leaves its loop at recv() only when its channel is closed
\* and holds no task; a message enters the result channel only as the one
\* answer of a worker for the task it worked on; and when find has returned
\* every worker has exited with nothing left in its channel or its hands,
\* the collector has ended with the result channel empty, and every file
\* that was dispatched was answered, each answer taken into the result once.
C33_ClosedChannelIsDrained ==
    /\ [](pc = "returned" =>
            /\ \A w \in Workers :
                  /\ wpc[w] = "exited"
                  /\ inq[w] = <<>>
                  /\ wtask[w] = NoTask
                  /\ wres[w] = NoRes
            /\ cpc = "done"
            /\ resq = <<>>
            /\ \A p \in Paths :
                  /\ fate[p] \notin {"opened", "sent"}
                  /\ p \in Answered => Occurrences(p) = 1)
    /\ [][/\ \A w \in Workers :
                (wpc[w] = "recv" /\ wpc'[w] = "exited") =>
                    (senderDropped[w] /\ inq[w] = <<>>)
          /\ Len(resq') > Len(resq) =>
                \E w \in Workers :
                    /\ wres[w] # NoRes
                    /\ fate[wres[w].path] \in {"hashed", "cached", "readerror"}
                    /\ resq' = Append(resq, wres[w])
                    /\ wres'[w] = NoRes]_vars

\* worker 0 works on the last file, which was in its channel when find
\* dropped the sender
C33_Witness ==
    /\ senderDropped[0]
    /\ wpc[0] = "work"
    /\ wtask[0].path = NumFiles
    /\ inq[0] = <<>>

\* C34: the row of a path changes only in the step in which a worker has
\* hashed the file of its task without error, the cache having had no row of
\* that mtime; the new row holds the mtime of the task, which the walker
\* read, in the seconds the cache keeps, and the size and hash just
\* computed.  A cache hit and a failed read change no row.
C34_RowWrittenOnlyAfterHashing ==
    [][\A p \in DOMAIN db :
          (p \in DOMAIN db' /\ db'[p] # db[p]) =>
              \E w \in Workers :
                  /\ wpc[w] = "work"
                  /\ wtask[w].path = p
                  /\ ~CacheHit(db[p], wtask[w].mtime)
                  /\ fate'[p] = "hashed"
                  /\ wres'[w].ok
                  /\ wres'[w].hash = Hash(fs[p].content)
                  /\ wres'[w].size = Len(fs[p].content)
                  /\ db'[p] = [mtime |-> unix_seconds(wtask[w].mtime),
                               size |-> wres'[w].size,
                               hash |-> wres'[w].hash]
                  /\ \A q \in DOMAIN db \ {p} : db'[q] = db[q]]_vars

\* one file was hashed and has its row, the read of another failed and it
\* has none
C34_Witness ==
    /\ useDb
    /\ \E p, q \in Paths :
          /\ fate[p] = "hashed"
          /\ db[p] # NoRow
          /\ db[p].hash = Hash(fs[p].content)
          /\ fate[q] = "readerror"
          /\ db[q] = NoRow

\* how often path p is in the result of the walk over the roots
FoundTimes(p) ==
    Cardinality(UNION {{<<h, n>> : n \in {k \in 1..Len(found[h].files) :
                                            found[h].files[k].path = p}} :
                          h \in DOMAIN found})

\* C35: whatever the roots, each path is at most once in the result.
C35_EachPathOnceInResult ==
    \A p \in DOMAIN tree : FoundTimes(p) <= 1

\* C36: no workflow removes every file of a group, none prompts for a path
\* it has removed, and none passes a path it has removed to remove_file.
C36_OneCopySurvives ==
    kind # "none" =>
        /\ \A n \in 1..Len(dups) : \E p \in Range(dups[n]) : disk[p].exists
        /\ (rpc = "pair" /\ kind = "interactive" /\ PairLeft) =>
              (EntryAt(idx_i) \notin removed /\ EntryAt(idx_j) \notin removed)
        /\ (rpc = "pair" /\ kind = "same_filename" /\ idx_j < Len(sorted)
              /\ disk[EntryAt(idx_j)].name = disk[EntryAt(0)].name) =>
              EntryAt(idx_j) \notin removed

\* C37: in interactive removal a line that is kept in `choice`, so that the
\* same pair is prompted again, is none of 1, 2 and s, and the turn that
\* read it moved no index and removed nothing: a line that is exactly 1, 2
\* or s is acted on, also when lines that are no answer came before it.
C37_ValidLineAfterInvalidIsActedOn ==
    [][(kind = "interactive" /\ rpc = "pair" /\ prompted
          /\ Len(choice') > Len(choice)) =>
          /\ choice'[Len(choice')] \notin {"1", "2", "s"}
          /\ idx_i' = idx_i /\ idx_j' = idx_j
          /\ RemovesNothing]_vars

\* C38: interactive removal comes to its end, whatever the groups and the
\* lines of the finite input.
C38_InteractiveRemovalTerminates ==
    <>(kind = "interactive" => rpc \in {"done", "failed", "panicked"})

\* C39: for every limit and every number of workers from 1 to 16 the budget
\* rlimit_nofile - 4 * num_workers is computed without underflow: the
\* subtraction does not panic, the budget and the capacity of the result
\* channel lie in 0..rlimit_nofile, and the capacity of a worker queue is
\* budget / num_workers, at most the budget.
C39_BudgetDoesNotUnderflow ==
    /\ bpc # "panicked"
    /\ bpc \in {"budget", "channels"} =>
          /\ fds = rlimit_nofile - 4 * num_workers
          /\ fds \in 0..rlimit_nofile
    /\ bpc = "channels" =>
          /\ result_cap \in 0..rlimit_nofile
          /\ queue_cap = fds \div num_workers
          /\ queue_cap <= fds

=============================================================================
